---- MODULE Spec2Model ----
(***************************************************************************)
(* A model of rombo: the dat index (Datafile), the layouts, the zip and    *)
(* file helpers, the scan pipeline (Verify / Export / Clean) and the       *)
(* command-line front end that drives them.                                *)
(*                                                                         *)
(* Representation.                                                         *)
(*   - A name (game name, file name, path component) is a sequence of      *)
(*     tokens; joining strings is concatenation of token sequences.  A     *)
(*     path is a sequence of names, filepath.Join is concatenation.        *)
(*   - A hash is a sequence of hex characters.  The hashers format a       *)
(*     number with %x (lower case, fixed width); the manifest stores       *)
(*     whatever case its author wrote.                                     *)
(*   - A file content is a small number c with Size(c), Digest(c) and      *)
(*     Crc32(c).                                                           *)
(*   - An XML document is the sequence of the root's children; a child     *)
(*     is [tag, name, roms], a rom is [name, size, crc, sha1].             *)
(*   - A zip archive is the set of its members [name, data]: the           *)
(*     deterministic writer makes equal member sets equal archives.        *)
(*   - The filesystem maps the paths of the files that exist to files;     *)
(*     the directories above them, and the roots walked, exist.            *)
(*   - The files a walk emits reach the workers in any order.              *)
(***************************************************************************)
EXTENDS Naturals, Sequences, FiniteSets, TLC

VARIABLES
  input,      \* Datafile.input: the catalogue document
  output,     \* Datafile.output: the remaining document
  call,       \* the last Datafile operation called directly, with its result
  nmerge,     \* number of Merge calls made so far
  cfg,        \* what was run: command, layout, destructive flag
  fs,         \* the filesystem: path -> file
  phase,      \* the public operation running or last run
  dpc,        \* the driver's position: "running", "returned", "exited"
  pending,    \* walked files not yet handed to a worker
  scanned,    \* every file the walkers of the current operation emit
  jobs,       \* the files being processed by a worker, with the worker's position
  errs,       \* the errors posted to the workers' error channels
  cancelled,  \* the operation's context has been cancelled
  opErr,      \* what the public operation returned
  exitCode,   \* the process' exit code, once exited
  readers     \* the zip readers opened and not closed

dvars == <<input, output>>
pvars ==
  <<cfg, fs, phase, dpc, pending, scanned, jobs, errs, cancelled, opErr, exitCode, readers>>
vars == <<input, output, call, nmerge, cfg, fs, phase, dpc, pending, scanned, jobs,
          errs, cancelled, opErr, exitCode, readers>>

(***************************************************************************)
(* Bounds of the model.                                                    *)
(***************************************************************************)
\* Merge calls made in one behaviour of the dat-index specification.
MaxMerges == 2
\* Files placed under the source root in one behaviour of the pipeline.
MaxSources == 2

(***************************************************************************)
(* Hex strings.                                                            *)
(***************************************************************************)
HexDigits == <<"0", "1", "2", "3", "4", "5", "6", "7", "8", "9",
               "a", "b", "c", "d", "e", "f">>

\* fmt.Sprintf("%x") of a one-byte digest, and "%.*x" of a one-byte CRC:
\* lower-case hex, zero padded.
Hex(n) == <<HexDigits[(n \div 16) + 1], HexDigits[(n % 16) + 1]>>

LowerChar(c) ==
  CASE c = "A" -> "a" [] c = "B" -> "b" [] c = "C" -> "c"
    [] c = "D" -> "d" [] c = "E" -> "e" [] c = "F" -> "f"
    [] OTHER -> c

UpperChar(c) ==
  CASE c = "a" -> "A" [] c = "b" -> "B" [] c = "c" -> "C"
    [] c = "d" -> "D" [] c = "e" -> "E" [] c = "f" -> "F"
    [] OTHER -> c

\* strings.ToLower / strings.ToUpper
ToLower(s) == [i \in DOMAIN s |-> LowerChar(s[i])]
ToUpper(s) == [i \in DOMAIN s |-> UpperChar(s[i])]

(***************************************************************************)
(* File contents.  0 is the empty content.                                 *)
(***************************************************************************)
Contents == 0..4

\* byte length
Size(c) == CASE c = 0 -> 0 [] c = 4 -> 7 [] OTHER -> 4
\* SHA-1 digest, as a number
Digest(c) == CASE c = 0 -> 218 [] c = 1 -> 26 [] c = 2 -> 43 [] c = 3 -> 60 [] OTHER -> 77
\* CRC-32, as a number; contents 1 and 3 collide on (size, CRC)
Crc32(c) == CASE c = 0 -> 0 [] c = 1 -> 193 [] c = 2 -> 210 [] c = 3 -> 193 [] OTHER -> 228

(***************************************************************************)
(* XML documents.                                                          *)
(***************************************************************************)
RomElem(n, c, upper) ==
  [name |-> n, size |-> Size(c),
   crc  |-> IF upper THEN ToUpper(Hex(Crc32(c))) ELSE Hex(Crc32(c)),
   sha1 |-> IF upper THEN ToUpper(Hex(Digest(c))) ELSE Hex(Digest(c))]

Header == [tag |-> "header", name |-> <<>>, roms |-> <<>>]
Game(n, rs) == [tag |-> "game", name |-> n, roms |-> rs]
Other(t) == [tag |-> t, name |-> <<>>, roms |-> <<>>]

\* xml.Parse: documents are modelled parsed; parsing the same bytes twice
\* yields two equal, independent trees.
xmlParse(b) == b

NewDatafile(b) == [input |-> xmlParse(b), output |-> xmlParse(b)]

\* One ROM value handed to the workers.  Game and Filename are read from the
\* catalogue node; CRC and SHA1 carry the node's hashes in lower case.
ROMValue(g, r) ==
  [Game |-> g.name, Filename |-> r.name, CRC |-> ToLower(r.crc), SHA1 |-> ToLower(r.sha1)]

\* The rom nodes of /datafile/game/rom in document order, as <<game index,
\* rom index>> pairs.
RECURSIVE RomNodesFrom(_, _)
RomNodesFrom(doc, gi) ==
  IF gi > Len(doc) THEN <<>>
  ELSE (IF doc[gi].tag = "game"
        THEN [ri \in 1..Len(doc[gi].roms) |-> <<gi, ri>>]
        ELSE <<>>) \o RomNodesFrom(doc, gi + 1)

RomNodes(doc) == RomNodesFrom(doc, 1)

NodeROM(doc, n) == ROMValue(doc[n[1]], doc[n[1]].roms[n[2]])

NodeElem(doc, n) == doc[n[1]].roms[n[2]]

\* Mutant of SHA1Matches: only the lower-case form of the query is compared.
SHA1Matches_LowerOnly(e, size, sha) ==
  e.size = size /\ e.sha1 = ToLower(sha)

\* Datafile.findROMBySHA1: @size = size and (@sha1 = lower(sha) or @sha1 = upper(sha))
SHA1Matches(e, size, sha) ==
  e.size = size /\ (e.sha1 = ToLower(sha) \/ e.sha1 = ToUpper(sha))

\* Mutant of CRCMatches: only the lower-case form of the query is compared.
CRCMatches_LowerOnly(e, size, crc) ==
  e.size = size /\ e.crc = ToLower(crc)

\* Datafile.findROMByCRC: @size = size and (@crc = lower(crc) or @crc = upper(crc))
CRCMatches(e, size, crc) ==
  e.size = size /\ (e.crc = ToLower(crc) \/ e.crc = ToUpper(crc))

MapNodes(doc, ns) == [i \in DOMAIN ns |-> NodeROM(doc, ns[i])]

\* Mutant of findROMBySHA1: only the first matching node is returned.
findROMBySHA1_FirstOnly(doc, size, sha) ==
  LET hit(n) == SHA1Matches(NodeElem(doc, n), size, sha)
      ns     == SelectSeq(RomNodes(doc), hit)
  IN  MapNodes(doc, IF Len(ns) > 1 THEN <<ns[1]>> ELSE ns)

findROMBySHA1(doc, size, sha) ==
  LET hit(n) == SHA1Matches(NodeElem(doc, n), size, sha)
  IN  MapNodes(doc, SelectSeq(RomNodes(doc), hit))

findROMByCRC(doc, size, crc) ==
  LET hit(n) == CRCMatches(NodeElem(doc, n), size, crc)
  IN  MapNodes(doc, SelectSeq(RomNodes(doc), hit))

\* Remove element i of a sequence.
RemoveAt(s, i) == [k \in 1..(Len(s) - 1) |-> IF k < i THEN s[k] ELSE s[k + 1]]

\* Mutant of UnlinkRom: the game is left in place when its last rom is unlinked.
UnlinkRom_KeepGame(doc, n) ==
  [doc EXCEPT ![n[1]] = [doc[n[1]] EXCEPT !.roms = RemoveAt(doc[n[1]].roms, n[2])]]

\* rom.Unlink(), then game.Unlink() when game.Search("rom") is empty.
UnlinkRom(doc, n) ==
  LET g    == doc[n[1]]
      rest == RemoveAt(g.roms, n[2])
  IN  IF Len(rest) = 0
      THEN RemoveAt(doc, n[1])
      ELSE [doc EXCEPT ![n[1]] = [g EXCEPT !.roms = rest]]

\* Mutant of deleteROM: a ROM that is not in the document is an error.
deleteROM_MissingIsError(doc, rom) ==
  LET hit(n) == doc[n[1]].name = rom.Game /\ NodeElem(doc, n).name = rom.Filename
      nodes  == SelectSeq(RomNodes(doc), hit)
  IN  IF Len(nodes) = 1 THEN [err |-> "", doc |-> UnlinkRom(doc, nodes[1])]
      ELSE [err |-> "more than one matched ROM", doc |-> doc]

\* Mutant of deleteROM: of several matching nodes the first is unlinked.
deleteROM_FirstOfMany(doc, rom) ==
  LET hit(n) == doc[n[1]].name = rom.Game /\ NodeElem(doc, n).name = rom.Filename
      nodes  == SelectSeq(RomNodes(doc), hit)
  IN  IF Len(nodes) >= 1 THEN [err |-> "", doc |-> UnlinkRom(doc, nodes[1])]
      ELSE [err |-> "", doc |-> doc]

\* Datafile.deleteROM (the workers' seenROM): the nodes of
\* /datafile/game[@name=G]/rom[@name=F] in the output document.
deleteROM(doc, rom) ==
  LET hit(n) == doc[n[1]].name = rom.Game /\ NodeElem(doc, n).name = rom.Filename
      nodes  == SelectSeq(RomNodes(doc), hit)
  IN  IF Len(nodes) > 1 THEN [err |-> "more than one matched ROM", doc |-> doc]
      ELSE IF Len(nodes) = 1 THEN [err |-> "", doc |-> UnlinkRom(doc, nodes[1])]
      ELSE [err |-> "", doc |-> doc]

\* Mutant of MergeFrom: a header child is appended like a game.
RECURSIVE MergeFrom_HeaderAppended(_, _, _)
MergeFrom_HeaderAppended(doc, other, i) ==
  IF i > Len(other) THEN [err |-> "", doc |-> doc]
  ELSE IF other[i].tag \in {"header", "game"}
       THEN MergeFrom_HeaderAppended(Append(doc, other[i]), other, i + 1)
  ELSE [err |-> "unknown element", doc |-> doc]

\* Mutant of MergeFrom: a document with an unknown element appends nothing.
RECURSIVE MergeFrom_AllOrNothing(_, _, _)
MergeFrom_AllOrNothing(doc, other, i) ==
  IF \E k \in i..Len(other) : other[k].tag \notin {"header", "game"}
  THEN [err |-> "unknown element", doc |-> doc]
  ELSE IF i > Len(other) THEN [err |-> "", doc |-> doc]
  ELSE IF other[i].tag = "header" THEN MergeFrom_AllOrNothing(doc, other, i + 1)
  ELSE MergeFrom_AllOrNothing(Append(doc, other[i]), other, i + 1)

\* Datafile.Merge: the loop over the children of the other document's root.
RECURSIVE MergeFrom(_, _, _)
MergeFrom(doc, other, i) ==
  IF i > Len(other) THEN [err |-> "", doc |-> doc]
  ELSE IF other[i].tag = "header" THEN MergeFrom(doc, other, i + 1)
  ELSE IF other[i].tag = "game" THEN MergeFrom(Append(doc, other[i]), other, i + 1)
  ELSE [err |-> "unknown element", doc |-> doc]

Merge(doc, b) == MergeFrom(doc, xmlParse(b), 1)

\* Datafile.Games: the number of /datafile/game nodes of the output document.
Games(doc) == Len(SelectSeq(doc, LAMBDA e : e.tag = "game"))

(***************************************************************************)
(* Names, paths and layouts.                                               *)
(***************************************************************************)
\* the tokens that begin with a dot
DotTokens == {".", ".bin", ".zip", ".upd", ".e2p", ".mrq", ".txt", ".cfg", ".dbs",
              ".sms", ".md", ".32x", ".cue", ".7z", ".xlsx"}

\* info.Name()[0] == '.'
Hidden(name) == Len(name) > 0 /\ name[1] \in DotTokens

\* filepath.Ext of a path: the suffix of its last element from the final dot
Ext(path) ==
  IF Len(path) = 0 \/ Len(path[Len(path)]) = 0 THEN ""
  ELSE LET n == path[Len(path)]
       IN  IF n[Len(n)] \in DotTokens THEN n[Len(n)] ELSE ""

\* filepath.Join of a directory and a relative path
Join(dir, rel) == dir \o rel

\* the No-Intro prefix of BIOS images
noIntroBIOS == "[BIOS] "

\* the first ASCII letter, upper-cased, or "#" for a digit, that the loop of
\* firstAlphanumeric meets in the characters of a token; "" if it has none
TokenAlnum(t) ==
  CASE t \in {"Game X", "G1", "G2", "G3", "G4"} -> "G"
    [] t = "3 Ninjas" -> "#"
    [] t \in {"alien", "a"} -> "A"
    [] t \in {"Sega CD", "Sega Master System", "Sega Mega Drive", "s"} -> "S"
    [] t \in {" (USA)"} -> "U"
    [] t \in {" (Disc 1)", " (Disc 2)", "(Disc 1)", "(Disc 2)", "disc", "d"} -> "D"
    [] t = " (Fire & Earth)" -> "F"
    [] t = " (Wind & Fang Tu)" -> "W"
    [] t \in {"[BIOS] ", "b", "bogus"} -> "B"
    [] t \in {"rom"} -> "R"
    [] OTHER -> ""

\* Mutant of firstAlphanumeric: every leading prefix is trimmed, not one.
RECURSIVE firstAlphanumeric_TrimAll(_)
firstAlphanumeric_TrimAll(s) ==
  IF Len(s) = 0 THEN [s |-> "", err |-> "no alphanumberic character"]
  ELSE IF s[1] = "[BIOS] " THEN firstAlphanumeric_TrimAll(Tail(s))
  ELSE IF TokenAlnum(s[1]) # "" THEN [s |-> TokenAlnum(s[1]), err |-> ""]
  ELSE firstAlphanumeric_TrimAll(Tail(s))

\* firstAlphanumeric: strings.TrimPrefix(s, noIntroBIOS), then the first
\* letter or digit of what is left
RECURSIVE firstAlnumFrom(_, _)
firstAlnumFrom(s, i) ==
  IF i > Len(s) THEN [s |-> "", err |-> "no alphanumberic character"]
  ELSE IF TokenAlnum(s[i]) # "" THEN [s |-> TokenAlnum(s[i]), err |-> ""]
  ELSE firstAlnumFrom(s, i + 1)

firstAlphanumeric(s) ==
  firstAlnumFrom(IF Len(s) > 0 /\ s[1] = noIntroBIOS THEN Tail(s) ELSE s, 1)

\* the console tags MegaSD.exportPath looks for in a BIOS image's filename
BiosTags ==
  {"32X", "Aiwa CSD-GM1", "LaserActive", "Mega-CD", "Multi-Mega", "Sega CD",
   "Sega Master System", "Sega Mega Drive", "WonderMega"}

\* the matches of \s+\(Disc\s\d+\), \s+\((?:Fire\s&\sEarth|Wind\s&\sFang\sTu)\)
\* and \s+\((?:Fingers|Juice|Mad\sDog|Smash)\)
DiscTokens ==
  {" (Disc 1)", " (Disc 2)", " (Fire & Earth)", " (Wind & Fang Tu)",
   " (Fingers)", " (Juice)", " (Mad Dog)", " (Smash)"}

\* Mutant of stripDiscs: the game name is used as it is.
stripDiscs_Keep(game) == game

\* MegaSD.exportPath: the three ReplaceAllString calls on rom.Game
stripDiscs(game) == SelectSeq(game, LAMBDA t : t \notin DiscTokens)

\* MegaSD.exportPath
MegaSDexportPath(rom) ==
  LET parent == firstAlphanumeric(rom.Game)
      loose(rel) == [rel |-> rel, zipped |-> FALSE, name |-> <<>>, err |-> ""]
  IN  IF parent.err # ""
      THEN [rel |-> <<>>, zipped |-> FALSE, name |-> <<>>, err |-> parent.err]
      ELSE IF /\ Len(rom.Filename) > 0 /\ rom.Filename[1] = noIntroBIOS
              /\ \E i \in DOMAIN rom.Filename : rom.Filename[i] \in BiosTags
      THEN loose(<<<<"BIOS">>, rom.Filename>>)
      ELSE CASE Ext(<<rom.Filename>>) = ".sms" ->
                  loose(<<<<"Master System & Mark III">>, <<parent.s>>, rom.Filename>>)
             [] Ext(<<rom.Filename>>) = ".md" ->
                  loose(<<<<"Mega Drive & Genesis">>, <<parent.s>>, rom.Filename>>)
             [] Ext(<<rom.Filename>>) = ".32x" ->
                  loose(<<<<"32X">>, <<parent.s>>, rom.Filename>>)
             [] Ext(<<rom.Filename>>) \in {".cue", ".bin"} ->
                  loose(<<<<"Mega-CD & Sega CD">>, <<parent.s>>, stripDiscs(rom.Game),
                          rom.Filename>>)
             [] OTHER -> loose(<<<<parent.s>>, rom.Filename>>)

\* SimpleCompressed.exportPath, MegaSD.exportPath, JaguarSD.exportPath,
\* SD2SNES.exportPath
exportPath(layout, rom) ==
  IF layout = "simple"
  THEN [rel |-> <<rom.Game \o <<".zip">>>>, zipped |-> TRUE, name |-> rom.Filename, err |-> ""]
  ELSE IF layout = "megasd" THEN MegaSDexportPath(rom)
  ELSE [rel |-> <<rom.Filename>>, zipped |-> FALSE, name |-> <<>>, err |-> ""]

\* SimpleCompressed.ignorePath, JaguarSD.ignorePath, SD2SNES.ignorePath
ignorePath(layout, rel) ==
  CASE layout = "simple"  -> FALSE
    [] layout = "jaguar"  -> rel = <<<<"firmware", ".upd">>>> \/ Ext(rel) \in {".e2p", ".mrq"}
    [] layout = "sd2snes" -> rel = <<<<"sd2snes">>>>
    [] layout = "megasd"  ->
         \/ rel \in {<<<<"BUP">>>>, <<<<"CHEATS">>>>, <<<<"STATES">>>>, <<<<"lastmsd", ".cfg">>>>,
                     <<<<"BIOS">>, <<"bios", ".cfg">>>>}
         \/ (Len(rel) > 0 /\ rel[Len(rel)] = <<"games", ".dbs">>)
         \/ Ext(rel) = ".upd"
    [] OTHER -> FALSE

(***************************************************************************)
(* The filesystem: a function from the paths that exist to files.          *)
(***************************************************************************)
\* magic is the type the file's leading bytes are sniffed as
LooseFile(c) ==
  [kind |-> "file", data |-> c, members |-> {}, readable |-> TRUE, magic |-> "bin"]
ZipFile(ms) ==
  [kind |-> "zip", data |-> 0, members |-> ms, readable |-> TRUE, magic |-> "zip"]
Unreadable(c) ==
  [kind |-> "file", data |-> c, members |-> {}, readable |-> FALSE, magic |-> "bin"]
\* a 7z archive: to everything but the sniffer, a file of bytes
SevenZip(c) ==
  [kind |-> "file", data |-> c, members |-> {}, readable |-> TRUE, magic |-> "7z"]
\* a zip archive that is sniffed as a spreadsheet
XlsxZip(ms) ==
  [kind |-> "zip", data |-> 0, members |-> ms, readable |-> TRUE, magic |-> "xlsx"]
Member(n, c) == [name |-> n, data |-> c]

Exists(f, p) == p \in DOMAIN f

\* os.Remove
Remove(f, p) == [q \in (DOMAIN f) \ {p} |-> f[q]]

\* create or replace the file at p
Put(f, p, v) == [q \in (DOMAIN f) \cup {p} |-> IF q = p THEN v ELSE f[q]]

\* mimetype.DetectFile: the extension sniffed from the magic bytes
DetectFile(f, p) ==
  IF ~f[p].readable THEN [err |-> "permission denied", extension |-> ""]
  ELSE [err |-> "", extension |-> f[p].magic]

\* mimeSplitter's switch: the stream a sniffed file is sent on
Stream(extension) == IF extension \in {"zip", "xlsx"} THEN "zip" ELSE "file"

\* sha1Sum: the lower-case hex digest and the length of the file at p
sha1Sum(f, p) ==
  IF ~Exists(f, p) THEN [err |-> "not exist", sha |-> <<>>, size |-> 0]
  ELSE IF ~f[p].readable \/ f[p].kind # "file"
       THEN [err |-> "read error", sha |-> <<>>, size |-> 0]
  ELSE [err |-> "", sha |-> Hex(Digest(f[p].data)), size |-> Size(f[p].data)]

\* zipCRC: the member's CRC-32 as lower-case hex
zipCRC(m) == Hex(Crc32(m.data))

\* fileExistsInZip
fileExistsInZip(f, p, name) ==
  IF ~Exists(f, p) THEN [err |-> "not exist", ok |-> FALSE, crc |-> <<>>, size |-> 0]
  ELSE IF f[p].kind # "zip" \/ ~f[p].readable
       THEN [err |-> "not a valid zip file", ok |-> FALSE, crc |-> <<>>, size |-> 0]
  ELSE IF \E m \in f[p].members : m.name = name
       THEN LET m == CHOOSE x \in f[p].members : x.name = name
            IN  [err |-> "", ok |-> TRUE, crc |-> zipCRC(m), size |-> Size(m.data)]
  ELSE [err |-> "", ok |-> FALSE, crc |-> <<>>, size |-> 0]

\* Mutant of zipTempFile: the members of the existing archive are not copied.
zipTempFile_Fresh(f, p, name, data) ==
  IF Exists(f, p) /\ (f[p].kind # "zip" \/ ~f[p].readable)
  THEN [err |-> "not a valid zip file", members |-> {}]
  ELSE [err |-> "", members |-> {Member(name, data)}]

\* createOrUpdateZip, up to the rename: the archive written to the temp file,
\* every member of the archive at p other than name, then name from the reader
zipTempFile(f, p, name, data) ==
  IF ~Exists(f, p) THEN [err |-> "", members |-> {Member(name, data)}]
  ELSE IF f[p].kind # "zip" \/ ~f[p].readable
       THEN [err |-> "not a valid zip file", members |-> {}]
  ELSE [err |-> "", members |-> {m \in f[p].members : m.name # name} \cup {Member(name, data)}]

\* createOrUpdateZip's os.Rename of the temp file over p
zipRename(f, p, members) == Put(f, p, ZipFile(members))

\* writeFile: os.Create truncates or creates the destination
writeCreate(f, p) == Put(f, p, LooseFile(0))

\* writeFile: io.Copy and Close leave the reader's content in the destination
writeCopy(f, p, data) == Put(f, p, LooseFile(data))

\* the order in which an archive's members are listed
RECURSIVE SeqOf(_)
SeqOf(S) ==
  IF S = {} THEN <<>>
  ELSE LET x == CHOOSE y \in S : TRUE
       IN  <<x>> \o SeqOf(S \ {x})

(***************************************************************************)
(* The walker.                                                             *)
(***************************************************************************)
IsPrefix(a, b) == Len(a) <= Len(b) /\ SubSeq(b, 1, Len(a)) = a

\* the path of p relative to dir, cut after its first k elements
RelPrefix(dir, p, k) == SubSeq(p, Len(dir) + 1, Len(dir) + k)

\* the entries of the directory at path
Children(f, path) ==
  {SubSeq(q, 1, Len(path) + 1) : q \in {p \in DOMAIN f : IsPrefix(path, p) /\ Len(p) > Len(path)}}

\* the callback findFiles hands to filepath.Walk, applied to the entry at path
\* and, unless it returns SkipDir, to the entries below it: an entry whose name
\* begins with a dot or whose path relative to dir the layout ignores is
\* skipped, a regular file is emitted
RECURSIVE walk(_, _, _, _)
walk(f, layout, dir, path) ==
  IF Hidden(path[Len(path)])
     \/ (Len(path) > Len(dir) /\ ignorePath(layout, RelPrefix(dir, path, Len(path) - Len(dir))))
  THEN {}
  ELSE IF path \in DOMAIN f THEN {path}
  ELSE UNION {walk(f, layout, dir, c) : c \in Children(f, path)}

\* Mutant of findFiles: the callback is applied below the root only.
findFiles_RootExempt(f, layout, dir) ==
  UNION {walk(f, layout, dir, c) : c \in Children(f, dir)}

\* findFiles: filepath.Walk(dir, ...), which visits dir itself first
findFiles(f, layout, dir) == walk(f, layout, dir, dir)

\* the walkers of every root, fanned in by mergeFiles
walkAll(f, layout, dirs) == UNION {findFiles(f, layout, dirs[i]) : i \in DOMAIN dirs}

(***************************************************************************)
(* The Datafile as the pair of its documents, and the operations on it.    *)
(***************************************************************************)
\* Mutant of seenROM: the ROM is searched and unlinked in the catalogue document.
seenROM_InCatalogue(d, rom) ==
  LET r == deleteROM(d.input, rom)
  IN  [err |-> r.err, input |-> r.doc, output |-> d.output]

\* Mutant of seenROM: a ROM that is no longer in the output document is an error.
seenROM_GoneIsError(d, rom) ==
  LET r == deleteROM(d.output, rom)
  IN  [err |-> IF r.doc = d.output /\ r.err = "" THEN "no such ROM" ELSE r.err,
       input |-> d.input, output |-> r.doc]

\* Mutant of seenROM: the ROM is unlinked from a fresh copy of the catalogue,
\* which becomes the output document.
seenROM_OfCatalogueCopy(d, rom) ==
  LET r == deleteROM(d.input, rom)
  IN  [err |-> r.err, input |-> d.input, output |-> r.doc]

\* seenROM / deleteROM: searches and unlinks in d.output only.
seenROM(d, rom) ==
  LET r == deleteROM(d.output, rom)
  IN  [err |-> r.err, input |-> d.input, output |-> r.doc]

\* Mutant of mergeInto: the games are appended to both documents.
mergeInto_BothDocuments(d, b) ==
  LET r == Merge(d.output, b)
  IN  [err |-> r.err, input |-> Merge(d.input, b).doc, output |-> r.doc]

\* Datafile.Merge: appends to d.output only.
mergeInto(d, b) ==
  LET r == Merge(d.output, b)
  IN  [err |-> r.err, input |-> d.input, output |-> r.doc]

\* Datafile.Marshal: the serialisation of d.output, which parses to it
Marshal(d) == d.output

(***************************************************************************)
(* Manifests used by the specifications.                                   *)
(***************************************************************************)
G1 == <<"G1">>
G2 == <<"G2">>
G3 == <<"G3">>
G4 == <<"G4">>
ABin == <<"a", ".bin">>
BBin == <<"b", ".bin">>
CBin == <<"c", ".bin">>
DBin == <<"d", ".bin">>

\* one game of two ROMs
DocPlain == <<Header, Game(G1, <<RomElem(ABin, 1, FALSE), RomElem(BBin, 2, FALSE)>>)>>
\* the same binary in two games, the second stored with upper-case hashes
DocShared == <<Header, Game(G1, <<RomElem(ABin, 1, FALSE)>>),
               Game(G2, <<RomElem(CBin, 1, TRUE)>>)>>
\* two rom elements with the same (game, filename)
DocDup == <<Header, Game(G1, <<RomElem(ABin, 1, FALSE), RomElem(ABin, 1, FALSE)>>)>>

BaseDocs == {DocPlain, DocShared, DocDup}

\* one new game, after a header
DocMore == <<Header, Game(G3, <<RomElem(DBin, 2, FALSE)>>)>>
\* two games around a header, the first with a name the base may already hold
DocTwo == <<Game(G1, <<RomElem(ABin, 1, FALSE)>>), Header,
            Game(G4, <<RomElem(DBin, 3, TRUE)>>)>>
\* a comment node between two games
DocBad == <<Game(G3, <<RomElem(DBin, 2, FALSE)>>), Other("comment"),
            Game(G4, <<RomElem(DBin, 3, TRUE)>>)>>

MergeDocs == {DocMore, DocTwo, DocBad}

AllROMs(doc) == {NodeROM(doc, RomNodes(doc)[i]) : i \in DOMAIN RomNodes(doc)}

NoROM == [Game |-> <<>>, Filename |-> <<>>, CRC |-> <<>>, SHA1 |-> <<>>]

\* the ROM values a caller may pass to seen
SeenArgs == UNION {AllROMs(doc) : doc \in BaseDocs \cup MergeDocs}

(***************************************************************************)
(* The dat-index specification: NewDatafile, then any sequence of Merge,   *)
(* findROMBySHA1, findROMByCRC and seen, called one at a time.             *)
(***************************************************************************)
NoCall == [op |-> "new", doc |-> <<>>, rom |-> NoROM, size |-> 0, hash |-> <<>>,
           err |-> "", found |-> <<>>]

\* the pipeline's variables, unused by the dat-index specification
IdlePipeline ==
  /\ cfg = [cmd |-> "none", layout |-> "simple", destructive |-> FALSE]
  /\ fs = <<>>
  /\ phase = "none"
  /\ dpc = "exited"
  /\ pending = {}
  /\ scanned = {}
  /\ jobs = {}
  /\ errs = {}
  /\ cancelled = FALSE
  /\ opErr = ""
  /\ exitCode = 0
  /\ readers = 0

InitDat ==
  /\ \E b \in BaseDocs :
       /\ input = NewDatafile(b).input
       /\ output = NewDatafile(b).output
  /\ call = NoCall
  /\ nmerge = 0
  /\ IdlePipeline

DatMerge ==
  /\ nmerge < MaxMerges
  /\ \E b \in MergeDocs :
       LET r == mergeInto([input |-> input, output |-> output], b)
       IN  /\ input' = r.input
           /\ output' = r.output
           /\ call' = [NoCall EXCEPT !.op = "merge", !.doc = b, !.err = r.err]
  /\ nmerge' = nmerge + 1
  /\ UNCHANGED pvars

DatSeen ==
  /\ \E rom \in SeenArgs :
       LET r == seenROM([input |-> input, output |-> output], rom)
       IN  /\ input' = r.input
           /\ output' = r.output
           /\ call' = [NoCall EXCEPT !.op = "seen", !.rom = rom, !.err = r.err]
  /\ UNCHANGED <<nmerge, pvars>>

\* the hashes a caller may query: what the hashers print, and its upper case
DatFindSHA1 ==
  /\ \E c \in Contents, up \in BOOLEAN :
       LET h == IF up THEN ToUpper(Hex(Digest(c))) ELSE Hex(Digest(c))
       IN  call' = [NoCall EXCEPT !.op = "find_by_sha1", !.size = Size(c), !.hash = h,
                                  !.found = findROMBySHA1(input, Size(c), h)]
  /\ UNCHANGED <<input, output, nmerge, pvars>>

DatFindCRC ==
  /\ \E c \in Contents, up \in BOOLEAN :
       LET h == IF up THEN ToUpper(Hex(Crc32(c))) ELSE Hex(Crc32(c))
       IN  call' = [NoCall EXCEPT !.op = "find_by_crc", !.size = Size(c), !.hash = h,
                                  !.found = findROMByCRC(input, Size(c), h)]
  /\ UNCHANGED <<input, output, nmerge, pvars>>

\* Marshal: the caller is handed the output document's bytes
DatMarshal ==
  /\ call' = [NoCall EXCEPT !.op = "marshal",
                            !.doc = Marshal([input |-> input, output |-> output])]
  /\ UNCHANGED <<input, output, nmerge, pvars>>

NextDat == DatMerge \/ DatSeen \/ DatFindSHA1 \/ DatFindCRC \/ DatMarshal

SpecDat == InitDat /\ [][NextDat]_vars

(***************************************************************************)
(* The Datafile called from two goroutines.  A method that takes d.mutex   *)
(* waits for it, runs its body and releases it on return; Marshal and      *)
(* Merge run their bodies without it.  A body that ran while another was   *)
(* in progress has raced: its write is any of the outcomes of the race.    *)
(***************************************************************************)
\* calls made in one run
MaxDatOps == 3

Callers == {"a", "b"}

\* the methods whose first statement is d.mutex.Lock()
Locking == {"find_by_sha1", "find_by_crc", "seen", "games_remaining"}
\* the methods without it
Unlocked == {"marshal", "merge"}

Unowned == "none"

MuIdle ==
  [pc |-> [t \in Callers |-> "idle"], op |-> [t \in Callers |-> "none"],
   rom |-> [t \in Callers |-> NoROM], snap |-> [t \in Callers |-> <<>>],
   raced |-> [t \in Callers |-> FALSE], mutex |-> Unowned, n |-> 0]

InitMutex ==
  /\ \E b \in BaseDocs :
       /\ input = NewDatafile(b).input
       /\ output = NewDatafile(b).output
  /\ call = MuIdle
  /\ nmerge = 0
  /\ IdlePipeline

\* the callers whose body is in progress
InBody(c) == {t \in Callers : c.pc[t] = "body"}

\* caller t begins the body of its method beside the bodies in progress
Enter(c, t) ==
  [c EXCEPT !.pc[t] = "body", !.snap[t] = output,
            !.raced = [u \in Callers |->
                         IF u = t THEN InBody(c) # {}
                         ELSE c.raced[u] \/ u \in InBody(c)]]

\* a goroutine calls a method: it blocks in Lock, or is in the body at once
MuCall ==
  /\ call.n < MaxDatOps
  /\ \E t \in Callers, op \in Locking \cup Unlocked, rom \in AllROMs(input) :
       /\ call.pc[t] = "idle"
       /\ op # "seen" => rom = CHOOSE r \in AllROMs(input) : TRUE
       /\ LET c == [call EXCEPT !.op[t] = op, !.rom[t] = rom, !.n = call.n + 1]
          IN  call' = IF op \in Locking THEN [c EXCEPT !.pc[t] = "lock"] ELSE Enter(c, t)
  /\ UNCHANGED <<input, output, nmerge, pvars>>

\* d.mutex.Lock() returns
MuLock ==
  /\ \E t \in Callers :
       /\ call.pc[t] = "lock"
       /\ call.mutex = Unowned
       /\ call' = Enter([call EXCEPT !.mutex = t], t)
  /\ UNCHANGED <<input, output, nmerge, pvars>>

\* the output document a method's body leaves, given the one it worked on
Effect(op, doc, rom) ==
  IF op = "seen" THEN deleteROM(doc, rom).doc
  ELSE IF op = "merge" THEN Merge(doc, DocMore).doc
  ELSE doc

\* the method returns; the deferred Unlock runs if it locked
MuReturn ==
  /\ \E t \in Callers :
       /\ call.pc[t] = "body"
       /\ output' \in
            IF call.raced[t]
            THEN {Effect(call.op[t], output, call.rom[t]),
                  Effect(call.op[t], call.snap[t], call.rom[t]), output}
            ELSE {Effect(call.op[t], output, call.rom[t])}
       /\ call' = [call EXCEPT !.pc[t] = "idle", !.raced[t] = FALSE,
                               !.mutex = IF call.mutex = t THEN Unowned ELSE call.mutex]
  /\ UNCHANGED <<input, nmerge, pvars>>

NextMutex == MuCall \/ MuLock \/ MuReturn

SpecMutex == InitMutex /\ [][NextMutex]_vars

(***************************************************************************)
(* The pipeline.  A public operation starts the walkers, the classifier    *)
(* and NumWorkers workers of each kind, and waits for them.  The walkers,  *)
(* the fan-in and the classifier are modelled by the set of walked files   *)
(* not yet handed to a worker; a worker is modelled while it holds a file. *)
(***************************************************************************)
\* the workers of each kind an operation starts
NumWorkers == 10

SrcRoot == <<<<"src">>>>
Target == <<<<"tgt">>>>
\* the directory Verify hands to its workers: ""
NoDir == <<>>

\* the directory the running operation hands to its workers
WorkDir == IF phase = "Verify" THEN NoDir ELSE Target

D == [input |-> input, output |-> output]

NoMember == Member(<<>>, 0)

\* a worker's position in the file it holds; reader tells whether the
\* createOrUpdateZip it is in has opened the target archive
Job(kind, file, pc, roms, members, m, sha, size) ==
  [kind |-> kind, file |-> file, pc |-> pc, roms |-> roms, i |-> 1,
   members |-> members, m |-> m, sha |-> sha, size |-> size, tmp |-> {},
   reader |-> FALSE]

Rom(j) == j.roms[j.i]

\* where a worker begins with a ROM: verifyFile marks it seen at once; exportZip
\* only logs when the layout is zipped; otherwise the target is compared first
StartPc(kind, rom) ==
  IF phase = "Verify" /\ kind = "file" THEN "seen"
  ELSE IF kind = "zip" /\ exportPath(cfg.layout, rom).zipped THEN "seen"
  ELSE "check"

\* the ROMs findROMByCRC returns for member k of an archive
MemberROMs(members, k) ==
  findROMByCRC(input, Size(members[k].data), zipCRC(members[k]))

\* the first member from k on that matches a ROM, or 0
RECURSIVE NextMember(_, _)
NextMember(members, k) ==
  IF k > Len(members) THEN 0
  ELSE IF Len(MemberROMs(members, k)) > 0 THEN k
  ELSE NextMember(members, k + 1)

\* the jobs once worker j is done with its current ROM: the next ROM of the
\* file or member, the next member that matches a ROM, or the end of the file
Advance(j) ==
  IF j.i < Len(j.roms)
  THEN (jobs \ {j}) \cup
         {[j EXCEPT !.i = j.i + 1, !.pc = StartPc(j.kind, j.roms[j.i + 1]), !.tmp = {}]}
  ELSE IF j.kind = "zip" /\ NextMember(j.members, j.m + 1) > 0
  THEN LET k  == NextMember(j.members, j.m + 1)
           rs == MemberROMs(j.members, k)
       IN  (jobs \ {j}) \cup
             {[j EXCEPT !.m = k, !.roms = rs, !.i = 1, !.pc = StartPc("zip", rs[1]),
                        !.size = Size(j.members[k].data), !.tmp = {}]}
  ELSE jobs \ {j}

Posted(task, file, err) == [task |-> task, file |-> file, err |-> err]

\* a worker of this kind is blocked in its receive
Available(kind) ==
  Cardinality({j \in jobs : j.kind = kind}) + Cardinality({e \in errs : e.task = kind})
    < NumWorkers

\* Mutant of Running: the goroutines of an operation stop where they are when
\* it returns.
Running_UntilReturn == dpc = "running"

\* the goroutines run until the process exits
Running == dpc # "exited"

\* the path the ROM's copy belongs at, under the running operation's directory
FullPath(rom) == Join(WorkDir, exportPath(cfg.layout, rom).rel)

\* mimeSplitter: sniffing a walked file fails; the classifier posts the error
\* and returns, which closes both streams
SplitterFail ==
  /\ Running
  /\ \E f \in pending :
       /\ DetectFile(fs, f).err # ""
       /\ errs' = errs \cup {Posted("splitter", f, DetectFile(fs, f).err)}
  /\ pending' = {}
  /\ UNCHANGED <<input, output, call, nmerge, cfg, fs, phase, dpc, scanned, jobs,
                 cancelled, opErr, exitCode, readers>>

\* findFiles, mergeFiles, mimeSplitter: blocked in a send, the task receives
\* from ctx.Done() and returns; what the walk had left is not emitted
CtxDone ==
  /\ Running
  /\ cancelled
  /\ pending # {}
  /\ pending' = {}
  /\ UNCHANGED <<input, output, call, nmerge, cfg, fs, phase, dpc, scanned, jobs, errs,
                 cancelled, opErr, exitCode, readers>>

\* fileWorker of Verify and Export: receive a loose file, sha1Sum it and look it
\* up; a file that matches no ROM is done with at once
FileTake ==
  /\ Running
  /\ phase \in {"Verify", "Export"}
  /\ Available("file")
  /\ \E f \in pending :
       /\ DetectFile(fs, f).err = ""
       /\ Stream(DetectFile(fs, f).extension) = "file"
       /\ LET h    == sha1Sum(fs, f)
              roms == findROMBySHA1(input, h.size, h.sha)
          IN  jobs' = IF Len(roms) = 0 THEN jobs
                      ELSE jobs \cup {Job("file", f, StartPc("file", roms[1]), roms,
                                          <<>>, 0, h.sha, h.size)}
       /\ pending' = pending \ {f}
  /\ UNCHANGED <<input, output, call, nmerge, cfg, fs, phase, dpc, scanned, errs,
                 cancelled, opErr, exitCode, readers>>

\* exportZip of Verify and Export: receive an archive and open it; the
\* reader is closed once the last member is done with
ZipTake ==
  /\ Running
  /\ phase \in {"Verify", "Export"}
  /\ Available("zip")
  /\ \E f \in pending :
       /\ DetectFile(fs, f).err = ""
       /\ Stream(DetectFile(fs, f).extension) = "zip"
       /\ LET ms == SeqOf(fs[f].members)
              k  == NextMember(ms, 1)
          IN  jobs' = IF k = 0 THEN jobs
                      ELSE jobs \cup {Job("zip", f, StartPc("zip", MemberROMs(ms, k)[1]),
                                          MemberROMs(ms, k), ms, k, <<>>,
                                          Size(ms[k].data))}
       /\ readers' = IF NextMember(SeqOf(fs[f].members), 1) = 0 THEN readers ELSE readers + 1
       /\ pending' = pending \ {f}
  /\ UNCHANGED <<input, output, call, nmerge, cfg, fs, phase, dpc, scanned, errs,
                 cancelled, opErr, exitCode>>

\* whether the copy at the target must be written: exportFile compares a zipped
\* target by the member's CRC and size, a loose one by SHA-1 and size, against
\* the scanned file; exportZip compares a loose target with the ROM's SHA-1
TargetCheck(j) ==
  LET rom == Rom(j)
      e   == exportPath(cfg.layout, rom)
  IN  IF e.zipped
      THEN LET r == fileExistsInZip(fs, FullPath(rom), e.name)
           IN  [err  |-> IF r.err = "not exist" THEN "" ELSE r.err,
                need |-> r.err = "not exist" \/ ~r.ok \/ r.crc # rom.CRC \/ r.size # j.size]
      ELSE LET r == sha1Sum(fs, FullPath(rom))
               want == IF j.kind = "file" THEN j.sha ELSE rom.SHA1
           IN  [err  |-> IF r.err = "not exist" THEN "" ELSE r.err,
                need |-> r.err = "not exist" \/ r.sha # want \/ r.size # j.size]

\* Mutant of AfterCheck: the write is made whatever the comparison found.
AfterCheck_Always(j, need) ==
  IF cfg.destructive
  THEN (IF exportPath(cfg.layout, Rom(j)).zipped THEN "ziptmp" ELSE "create")
  ELSE "seen"

\* the pc after the comparison: the write is made only when destructive
AfterCheck(j, need) ==
  IF need /\ cfg.destructive
  THEN (IF exportPath(cfg.layout, Rom(j)).zipped THEN "ziptmp" ELSE "create")
  ELSE "seen"

\* the readers the comparison opens and leaves open: fileExistsInZip returns
\* without closing the reader it opened
OpenedByCheck(j) ==
  LET e == exportPath(cfg.layout, Rom(j))
  IN  IF e.zipped /\ fileExistsInZip(fs, FullPath(Rom(j)), e.name).err = "" THEN 1 ELSE 0

\* exportFile / exportZip: compare the target with the scanned content
JobCheck ==
  /\ Running
  /\ \E j \in jobs :
       /\ j.pc = "check"
       /\ readers' = readers + OpenedByCheck(j)
       /\ LET c == TargetCheck(j)
          IN  IF c.err # ""
              THEN /\ errs' = errs \cup {Posted(j.kind, j.file, c.err)}
                   /\ jobs' = jobs \ {j}
              ELSE /\ jobs' = (jobs \ {j}) \cup {[j EXCEPT !.pc = AfterCheck(j, c.need)]}
                   /\ errs' = errs
  /\ UNCHANGED <<input, output, call, nmerge, cfg, fs, phase, dpc, pending, scanned,
                 cancelled, opErr, exitCode>>

\* the content a worker writes: the scanned file's, or the archive member's
SourceData(j) == IF j.kind = "file" THEN fs[j.file].data ELSE j.members[j.m].data

\* exportFile: os.Open the file, then createOrUpdateZip up to the rename
JobZipTemp ==
  /\ Running
  /\ \E j \in jobs :
       /\ j.pc = "ziptmp"
       /\ LET e == exportPath(cfg.layout, Rom(j))
              t == zipTempFile(fs, FullPath(Rom(j)), e.name, SourceData(j))
          IN  IF t.err # ""
              THEN /\ errs' = errs \cup {Posted(j.kind, j.file, t.err)}
                   /\ jobs' = jobs \ {j}
              ELSE /\ jobs' = (jobs \ {j}) \cup
                                {[j EXCEPT !.pc = "rename", !.tmp = t.members,
                                           !.reader = Exists(fs, FullPath(Rom(j)))]}
                   /\ errs' = errs
       /\ readers' = IF zipTempFile(fs, FullPath(Rom(j)), exportPath(cfg.layout, Rom(j)).name,
                                    SourceData(j)).err = "" /\ Exists(fs, FullPath(Rom(j)))
                     THEN readers + 1 ELSE readers
  /\ UNCHANGED <<input, output, call, nmerge, cfg, fs, phase, dpc, pending, scanned,
                 cancelled, opErr, exitCode>>

\* createOrUpdateZip: rename the temp file over the target archive; the
\* deferred reader.Close() runs
JobRename ==
  /\ Running
  /\ \E j \in jobs :
       /\ j.pc = "rename"
       /\ fs' = zipRename(fs, FullPath(Rom(j)), j.tmp)
       /\ jobs' = (jobs \ {j}) \cup {[j EXCEPT !.pc = "seen", !.tmp = {}, !.reader = FALSE]}
       /\ readers' = IF j.reader THEN readers - 1 ELSE readers
  /\ UNCHANGED <<input, output, call, nmerge, cfg, phase, dpc, pending, scanned, errs,
                 cancelled, opErr, exitCode>>

\* copyFile / writeFile: create the destination
JobCreate ==
  /\ Running
  /\ \E j \in jobs :
       /\ j.pc = "create"
       /\ fs' = writeCreate(fs, FullPath(Rom(j)))
       /\ jobs' = (jobs \ {j}) \cup {[j EXCEPT !.pc = "copy"]}
  /\ UNCHANGED <<input, output, call, nmerge, cfg, phase, dpc, pending, scanned, errs,
                 cancelled, opErr, exitCode, readers>>

\* copyFile / writeFile: copy the content and close
JobCopy ==
  /\ Running
  /\ \E j \in jobs :
       /\ j.pc = "copy"
       /\ fs' = writeCopy(fs, FullPath(Rom(j)), SourceData(j))
       /\ jobs' = (jobs \ {j}) \cup {[j EXCEPT !.pc = "seen"]}
  /\ UNCHANGED <<input, output, call, nmerge, cfg, phase, dpc, pending, scanned, errs,
                 cancelled, opErr, exitCode, readers>>

\* Mutant of JobSeen: in dry-run the worker goes on without marking the ROM.
JobSeen_NotInDryRun ==
  /\ Running
  /\ \E j \in jobs :
       /\ j.pc = "seen"
       /\ LET r == IF cfg.destructive \/ phase = "Verify" THEN seenROM(D, Rom(j))
                   ELSE [err |-> "", input |-> input, output |-> output]
          IN  /\ input' = r.input
              /\ output' = r.output
              /\ IF r.err # ""
                 THEN /\ errs' = errs \cup {Posted(j.kind, j.file, r.err)}
                      /\ jobs' = jobs \ {j}
                 ELSE /\ jobs' = Advance(j)
                      /\ errs' = errs
       /\ readers' = IF /\ j.kind = "zip"
                        /\ seenROM(D, Rom(j)).err = ""
                        /\ Advance(j) = jobs \ {j}
                     THEN readers - 1 ELSE readers
  /\ UNCHANGED <<call, nmerge, cfg, fs, phase, dpc, pending, scanned,
                 cancelled, opErr, exitCode>>

\* verifyFile / exportFile / exportZip: mark the ROM seen; exportZip closes
\* its reader after the last member, and on no error return
JobSeen ==
  /\ Running
  /\ \E j \in jobs :
       /\ j.pc = "seen"
       /\ LET r == seenROM(D, Rom(j))
          IN  /\ input' = r.input
              /\ output' = r.output
              /\ IF r.err # ""
                 THEN /\ errs' = errs \cup {Posted(j.kind, j.file, r.err)}
                      /\ jobs' = jobs \ {j}
                 ELSE /\ jobs' = Advance(j)
                      /\ errs' = errs
       /\ readers' = IF /\ j.kind = "zip"
                        /\ seenROM(D, Rom(j)).err = ""
                        /\ Advance(j) = jobs \ {j}
                     THEN readers - 1 ELSE readers
  /\ UNCHANGED <<call, nmerge, cfg, fs, phase, dpc, pending, scanned,
                 cancelled, opErr, exitCode>>

\* Mutant of cleanMatched: any ROM of the file's content keeps the file.
cleanMatched_AnyPath(layout, dir, file, roms) == Len(roms) > 0

\* cleanFile: whether some ROM of the file's content belongs at the file's path
cleanMatched(layout, dir, file, roms) ==
  \E i \in 1..Len(roms) : Join(dir, exportPath(layout, roms[i]).rel) = file

\* Mutant of cleanFile: the delete is not gated by the destructive flag.
cleanFile_Ungated(f, layout, destructive, dir, file, roms) ==
  IF ~cleanMatched(layout, dir, file, roms) THEN Remove(f, file) ELSE f

\* cleanFile: a file that is matched by no ROM at its own path is deleted,
\* when destructive
cleanFile(f, layout, destructive, dir, file, roms) ==
  IF ~cleanMatched(layout, dir, file, roms) /\ destructive THEN Remove(f, file) ELSE f

\* readZip: the members that no ROM of the same (size, CRC) places in this
\* archive under the member's name
evictees(doc, layout, dir, file, members) ==
  {m \in members :
     LET roms == findROMByCRC(doc, Size(m.data), zipCRC(m))
     IN  ~\E i \in 1..Len(roms) :
            LET e == exportPath(layout, roms[i])
            IN  Join(dir, e.rel) = file /\ e.name = m.name}

\* readZip: the archive is deleted, when destructive, if every member is an
\* evictee; otherwise the evictees are logged and the function returns
readZip(f, doc, layout, destructive, dir, file) ==
  IF evictees(doc, layout, dir, file, f[file].members) = f[file].members
  THEN (IF destructive THEN Remove(f, file) ELSE f)
  ELSE f

\* Mutant of CleanFileTake: the file's content is looked up among the ROMs
\* still remaining.
CleanFileTake_Remaining ==
  /\ Running
  /\ phase = "Clean"
  /\ Available("file")
  /\ \E f \in pending :
       /\ DetectFile(fs, f).err = ""
       /\ Stream(DetectFile(fs, f).extension) = "file"
       /\ LET h == sha1Sum(fs, f)
          IN  fs' = cleanFile(fs, cfg.layout, cfg.destructive, Target, f,
                              findROMBySHA1(output, h.size, h.sha))
       /\ pending' = pending \ {f}
  /\ UNCHANGED <<input, output, call, nmerge, cfg, phase, dpc, scanned, jobs, errs,
                 cancelled, opErr, exitCode, readers>>

\* fileWorker of Clean: receive a loose file, sha1Sum it, look it up, cleanFile
CleanFileTake ==
  /\ Running
  /\ phase = "Clean"
  /\ Available("file")
  /\ \E f \in pending :
       /\ DetectFile(fs, f).err = ""
       /\ Stream(DetectFile(fs, f).extension) = "file"
       /\ LET h == sha1Sum(fs, f)
          IN  fs' = cleanFile(fs, cfg.layout, cfg.destructive, Target, f,
                              findROMBySHA1(input, h.size, h.sha))
       /\ pending' = pending \ {f}
  /\ UNCHANGED <<input, output, call, nmerge, cfg, phase, dpc, scanned, jobs, errs,
                 cancelled, opErr, exitCode, readers>>

\* cleanZip: receive an archive, readZip
CleanZipTake ==
  /\ Running
  /\ phase = "Clean"
  /\ Available("zip")
  /\ \E f \in pending :
       /\ DetectFile(fs, f).err = ""
       /\ Stream(DetectFile(fs, f).extension) = "zip"
       /\ fs' = readZip(fs, input, cfg.layout, cfg.destructive, Target, f)
       /\ pending' = pending \ {f}
  /\ UNCHANGED <<input, output, call, nmerge, cfg, phase, dpc, scanned, jobs, errs,
                 cancelled, opErr, exitCode, readers>>

\* waitForPipeline: the first error received is returned; the deferred
\* cancelFunc runs, and the goroutines still at work are left behind
ReturnErr ==
  /\ dpc = "running"
  /\ \E e \in errs : opErr' = e.err
  /\ dpc' = "returned"
  /\ cancelled' = TRUE
  /\ UNCHANGED <<input, output, call, nmerge, cfg, fs, phase, pending, scanned, jobs,
                 errs, exitCode, readers>>

\* Mutant of ReturnNil: the errors posted are not looked at.
ReturnNil_ErrorsDropped ==
  /\ dpc = "running"
  /\ pending = {}
  /\ jobs = {}
  /\ opErr' = ""
  /\ dpc' = "returned"
  /\ cancelled' = TRUE
  /\ UNCHANGED <<input, output, call, nmerge, cfg, fs, phase, pending, scanned, jobs,
                 errs, exitCode, readers>>

\* Mutant of ReturnNil: the workers' error channels are not waited for.
ReturnNil_WorkersNotAwaited ==
  /\ dpc = "running"
  /\ errs = {}
  /\ pending = {}
  /\ opErr' = ""
  /\ dpc' = "returned"
  /\ cancelled' = TRUE
  /\ UNCHANGED <<input, output, call, nmerge, cfg, fs, phase, pending, scanned, jobs,
                 errs, exitCode, readers>>

\* waitForPipeline: every error channel was closed without an error
ReturnNil ==
  /\ dpc = "running"
  /\ errs = {}
  /\ pending = {}
  /\ jobs = {}
  /\ opErr' = ""
  /\ dpc' = "returned"
  /\ cancelled' = TRUE
  /\ UNCHANGED <<input, output, call, nmerge, cfg, fs, phase, pending, scanned, jobs,
                 errs, exitCode, readers>>

\* Mutant of StartClean: Clean walks the source roots as well as the target.
StartClean_WalksSources ==
  /\ cfg.cmd = "export"
  /\ phase = "Export"
  /\ dpc = "returned"
  /\ opErr = ""
  /\ phase' = "Clean"
  /\ dpc' = "running"
  /\ cancelled' = FALSE
  /\ pending' = walkAll(fs, cfg.layout, <<SrcRoot, Target>>)
  /\ scanned' = walkAll(fs, cfg.layout, <<SrcRoot, Target>>)
  /\ UNCHANGED <<input, output, call, nmerge, cfg, fs, jobs, errs, opErr, exitCode, readers>>

\* the export command: Clean of the target once Export returned without error
StartClean ==
  /\ cfg.cmd = "export"
  /\ phase = "Export"
  /\ dpc = "returned"
  /\ opErr = ""
  /\ phase' = "Clean"
  /\ dpc' = "running"
  /\ cancelled' = FALSE
  /\ pending' = walkAll(fs, cfg.layout, <<Target>>)
  /\ scanned' = walkAll(fs, cfg.layout, <<Target>>)
  /\ UNCHANGED <<input, output, call, nmerge, cfg, fs, jobs, errs, opErr, exitCode, readers>>

\* the exit status of the verify and export commands: an error of the
\* operation is returned as an ExitError of 1; with games remaining the
\* ExitError of 2 is constructed and dropped, and the command returns nil
cliExit(err, games) ==
  IF err # "" THEN 1
  ELSE IF games > 0 THEN 0
  ELSE 0

\* the command returns and the process exits
Exit ==
  /\ dpc = "returned"
  /\ phase \in {"Verify", "Clean"} \/ opErr # ""
  /\ exitCode' = cliExit(opErr, Games(output))
  /\ dpc' = "exited"
  /\ UNCHANGED <<input, output, call, nmerge, cfg, fs, phase, pending, scanned, jobs,
                 errs, cancelled, opErr, readers>>

(***************************************************************************)
(* The verify and export commands, run on small directory trees.           *)
(***************************************************************************)
\* a directory entry: <<path, file>>
At(dir, name, file) == <<dir \o <<name>>, file>>

\* the files a source directory may hold
SrcFiles ==
  {At(SrcRoot, <<"x", ".bin">>, LooseFile(1)),
   At(SrcRoot, <<"y", ".bin">>, LooseFile(2)),
   At(SrcRoot, <<"s", ".zip">>, ZipFile({Member(<<"m", ".bin">>, 1), Member(<<"n", ".bin">>, 4)})),
   At(SrcRoot, <<"bad", ".bin">>, Unreadable(2)),
   At(SrcRoot, <<"pack", ".7z">>, SevenZip(2)),
   At(SrcRoot, <<"sheet", ".xlsx">>, XlsxZip({Member(<<"q", ".bin">>, 2)}))}

\* the states the target directory may start in
TargetEmpty == {}
TargetZipped ==
  {At(Target, <<"G1", ".zip">>, ZipFile({Member(ABin, 1), Member(<<"bogus", ".txt">>, 4)}))}
TargetLoose ==
  {At(Target, ABin, LooseFile(1)), At(Target, <<"junk", ".bin">>, LooseFile(4))}
TargetStale ==
  {At(Target, <<"G1", ".zip">>, ZipFile({Member(<<"bogus", ".txt">>, 4)})),
   At(Target, <<"x", ".bin">>, LooseFile(1))}
TargetLocked ==
  {At(Target, <<"locked", ".bin">>, Unreadable(2))}
Target7z ==
  {At(Target, <<"old", ".7z">>, SevenZip(4))}
Targets == {TargetEmpty, TargetZipped, TargetLoose, TargetStale, TargetLocked, Target7z}

\* the filesystem holding the entries E
MkFs(E) == [p \in {e[1] : e \in E} |-> (CHOOSE e \in E : e[1] = p)[2]]

\* the verify command: rombo.New(datafile, logger, false, nil), Verify(args)
\* the export command: rombo.New(datafile, logger, !dry-run, layout),
\* Export(first, tail)
Init ==
  /\ \E b \in BaseDocs :
       /\ input = NewDatafile(b).input
       /\ output = NewDatafile(b).output
  /\ call = NoCall
  /\ nmerge = 0
  /\ \E cmd \in {"verify", "export"}, layout \in {"simple", "jaguar"}, destructive \in BOOLEAN :
       /\ cmd = "verify" => layout = "simple" /\ ~destructive
       /\ cfg = [cmd |-> cmd, layout |-> layout, destructive |-> destructive]
  /\ \E S \in SUBSET SrcFiles, T \in Targets :
       /\ Cardinality(S) <= MaxSources
       /\ fs = MkFs(S \cup T)
  /\ phase = IF cfg.cmd = "verify" THEN "Verify" ELSE "Export"
  /\ dpc = "running"
  /\ pending = walkAll(fs, cfg.layout,
                       IF cfg.cmd = "verify" THEN <<SrcRoot, Target>> ELSE <<SrcRoot>>)
  /\ scanned = pending
  /\ jobs = {}
  /\ errs = {}
  /\ cancelled = FALSE
  /\ opErr = ""
  /\ exitCode = 0
  /\ readers = 0

\* a step of a walker, the fan-in, the classifier or a worker
TaskStep ==
  \/ SplitterFail
  \/ CtxDone
  \/ FileTake
  \/ ZipTake
  \/ JobCheck
  \/ JobZipTemp
  \/ JobRename
  \/ JobCreate
  \/ JobCopy
  \/ JobSeen
  \/ CleanFileTake
  \/ CleanZipTake

Next ==
  \/ SplitterFail
  \/ CtxDone
  \/ FileTake
  \/ ZipTake
  \/ JobCheck
  \/ JobZipTemp
  \/ JobRename
  \/ JobCreate
  \/ JobCopy
  \/ JobSeen
  \/ CleanFileTake
  \/ CleanZipTake
  \/ ReturnErr
  \/ ReturnNil
  \/ StartClean
  \/ Exit

Spec == Init /\ [][Next]_vars

\* the program used either way: the Datafile called directly, or the verify
\* and export commands run
InitCatalogue == InitDat \/ Init

NextCatalogue == (phase = "none" /\ NextDat) \/ Next

SpecCatalogue == InitCatalogue /\ [][NextCatalogue]_vars

\* roots whose own name begins with a dot: a dot-named directory, and "."
DotRoot == <<<<".", "roms">>>>
CurDir == <<<<".">>>>

\* the directories Verify may be given
VerifyRoots == {<<SrcRoot, Target>>, <<DotRoot>>, <<CurDir>>}

\* the entries E of the source directory, found under dir instead
Under(dir, E) == {<<dir \o Tail(e[1]), e[2]>> : e \in E}

\* Verify called on an engine made by rombo.New with any layout and either
\* value of the destructive flag, over the source and target directories or
\* over a directory whose name begins with a dot
InitVerify ==
  /\ \E b \in BaseDocs :
       /\ input = NewDatafile(b).input
       /\ output = NewDatafile(b).output
  /\ call = NoCall
  /\ nmerge = 0
  /\ \E layout \in {"simple", "jaguar"}, destructive \in BOOLEAN, roots \in VerifyRoots :
       cfg = [cmd |-> "verify", layout |-> layout, destructive |-> destructive,
              roots |-> roots]
  /\ \E S \in SUBSET SrcFiles, T \in Targets :
       /\ Cardinality(S) <= MaxSources
       /\ fs = IF cfg.roots = <<SrcRoot, Target>> THEN MkFs(S \cup T)
               ELSE MkFs(Under(cfg.roots[1], S))
  /\ phase = "Verify"
  /\ dpc = "running"
  /\ pending = walkAll(fs, cfg.layout, cfg.roots)
  /\ scanned = pending
  /\ jobs = {}
  /\ errs = {}
  /\ cancelled = FALSE
  /\ opErr = ""
  /\ exitCode = 0
  /\ readers = 0

\* the steps of Verify's tasks and of its caller
NextVerify ==
  \/ SplitterFail
  \/ CtxDone
  \/ FileTake
  \/ ZipTake
  \/ JobCheck
  \/ JobCreate
  \/ JobCopy
  \/ JobSeen
  \/ ReturnErr
  \/ ReturnNil
  \/ Exit

SpecVerify == InitVerify /\ [][NextVerify]_vars

\* source files in the runs checked for termination
MaxLiveSources == 1

\* manifests in the runs checked for termination
LiveDocs == {DocPlain, DocDup}

InitLive ==
  /\ Init
  /\ input \in {NewDatafile(b).input : b \in LiveDocs}
  /\ Cardinality({p \in DOMAIN fs : IsPrefix(SrcRoot, p)}) <= MaxLiveSources

\* the same commands, with every task that can take a step scheduled in the
\* end, and the caller once every error channel is closed
SpecLive == InitLive /\ [][Next]_vars /\ WF_vars(TaskStep) /\ WF_vars(ReturnNil)

(***************************************************************************)
(* The archive writers called one at a time, any of their steps failing:   *)
(* createOrUpdateZip(path, name, reader) and recreateZip(path).  The call  *)
(* in progress is held in the variable call.                               *)
(***************************************************************************)
\* calls made in one behaviour
MaxZipOps == 2

ZipPath == Target \o <<<<"G1", ".zip">>>>
TempDir == <<<<"tmp">>>>

\* the random suffix ioutil.TempFile gives its n-th file
TempSuffix(n) == <<"r1", "r2", "r3", "r4">>[n]

\* ioutil.TempFile(filepath.Dir(path), "." + filepath.Base(path)) and
\* ioutil.TempFile(os.TempDir(), filepath.Base(path))
TempFile(op, path, n) ==
  LET base == path[Len(path)]
  IN  IF op = "create_or_update"
      THEN SubSeq(path, 1, Len(path) - 1) \o <<<<".">> \o base \o <<TempSuffix(n)>>>>
      ELSE TempDir \o <<base \o <<TempSuffix(n)>>>>

\* a file the zip writer has not yet closed
Partial(ms) ==
  [kind |-> "partial", data |-> 0, members |-> ms, readable |-> TRUE, magic |-> "zip"]

\* the states the archive may start in: absent, one member, two members, not a zip
ZipStarts ==
  {{}, {<<ZipPath, ZipFile({Member(ABin, 1)})>>},
   {<<ZipPath, ZipFile({Member(ABin, 1), Member(<<"bogus", ".txt">>, 4)})>>},
   {<<ZipPath, LooseFile(3)>>}}

ZipIdle ==
  [op |-> "none", path |-> <<>>, name |-> <<>>, data |-> 0, pc |-> "done", tmp |-> <<>>,
   err |-> "", n |-> 0, before |-> <<>>, reader |-> FALSE]

InitZip ==
  /\ input = <<>>
  /\ output = <<>>
  /\ call = ZipIdle
  /\ nmerge = 0
  /\ cfg = [cmd |-> "none", layout |-> "simple", destructive |-> TRUE]
  /\ \E E \in ZipStarts : fs = MkFs(E)
  /\ phase = "none"
  /\ dpc = "exited"
  /\ pending = {}
  /\ scanned = {}
  /\ jobs = {}
  /\ errs = {}
  /\ cancelled = FALSE
  /\ opErr = ""
  /\ exitCode = 0
  /\ readers = 0

ZipOpRunning == call.pc \in {"start", "temp", "written", "closed"}

\* the deferred os.Remove(tmpfile.Name()) of createOrUpdateZip; recreateZip
\* defers no removal
zipDeferred(f, op, tmp) ==
  IF op = "create_or_update" /\ Exists(f, tmp) THEN Remove(f, tmp) ELSE f

\* a caller calls createOrUpdateZip or recreateZip
ZipCall ==
  /\ ~ZipOpRunning
  /\ call.n < MaxZipOps
  /\ \E op \in {"create_or_update", "recreate"}, name \in {ABin, BBin}, data \in {1, 2} :
       call' = [op |-> op, path |-> ZipPath, name |-> name, data |-> data, pc |-> "start",
                tmp |-> <<>>, err |-> "", n |-> call.n + 1, before |-> fs,
                reader |-> FALSE]
  /\ UNCHANGED <<input, output, nmerge, pvars>>

\* ioutil.TempFile
ZipTemp ==
  /\ call.pc = "start"
  /\ LET tmp == TempFile(call.op, call.path, call.n)
     IN  /\ fs' = Put(fs, tmp, Partial({}))
         /\ call' = [call EXCEPT !.pc = "temp", !.tmp = tmp]
  /\ UNCHANGED <<input, output, nmerge, cfg, phase, dpc, pending, scanned, jobs, errs,
                 cancelled, opErr, exitCode, readers>>

\* zip.OpenReader(path), then every member is written to the temp file:
\* createOrUpdateZip skips name and appends it from the reader, recreateZip
\* copies all and needs the archive to exist
ZipWrite ==
  /\ call.pc = "temp"
  /\ LET t == IF call.op = "create_or_update"
              THEN zipTempFile(fs, call.path, call.name, call.data)
              ELSE IF ~Exists(fs, call.path) THEN [err |-> "not exist", members |-> {}]
              ELSE IF fs[call.path].kind # "zip"
                   THEN [err |-> "not a valid zip file", members |-> {}]
              ELSE [err |-> "", members |-> fs[call.path].members]
     IN  IF t.err # ""
         THEN /\ fs' = zipDeferred(fs, call.op, call.tmp)
              /\ call' = [call EXCEPT !.pc = "failed", !.err = t.err]
              /\ readers' = readers
         ELSE /\ fs' = Put(fs, call.tmp, Partial(t.members))
              /\ call' = [call EXCEPT !.pc = "written", !.reader = Exists(fs, call.path)]
              /\ readers' = IF Exists(fs, call.path) THEN readers + 1 ELSE readers
  /\ UNCHANGED <<input, output, nmerge, cfg, phase, dpc, pending, scanned, jobs, errs,
                 cancelled, opErr, exitCode>>

\* w.Close() and tmpfile.Close(); recreateZip then returns the temp file's name
ZipClose ==
  /\ call.pc = "written"
  /\ fs' = Put(fs, call.tmp, ZipFile(fs[call.tmp].members))
  /\ call' = [call EXCEPT !.pc = IF call.op = "create_or_update" THEN "closed" ELSE "done",
                          !.reader = call.op = "create_or_update" /\ call.reader]
  /\ readers' = IF call.op = "recreate" /\ call.reader THEN readers - 1 ELSE readers
  /\ UNCHANGED <<input, output, nmerge, cfg, phase, dpc, pending, scanned, jobs, errs,
                 cancelled, opErr, exitCode>>

\* createOrUpdateZip: os.Rename(tmpfile.Name(), path), then the deferred
\* removal finds nothing
ZipRename ==
  /\ call.pc = "closed"
  /\ fs' = zipDeferred(Remove(zipRename(fs, call.path, fs[call.tmp].members), call.tmp),
                       call.op, call.tmp)
  /\ call' = [call EXCEPT !.pc = "done", !.reader = FALSE]
  /\ readers' = IF call.reader THEN readers - 1 ELSE readers
  /\ UNCHANGED <<input, output, nmerge, cfg, phase, dpc, pending, scanned, jobs, errs,
                 cancelled, opErr, exitCode>>

\* the step the call is at returns an I/O error; the function returns it after
\* its deferred calls, reader.Close() among them
ZipFail ==
  /\ ZipOpRunning
  /\ fs' = zipDeferred(fs, call.op, call.tmp)
  /\ call' = [call EXCEPT !.pc = "failed", !.err = "input/output error", !.reader = FALSE]
  /\ readers' = IF call.reader THEN readers - 1 ELSE readers
  /\ UNCHANGED <<input, output, nmerge, cfg, phase, dpc, pending, scanned, jobs, errs,
                 cancelled, opErr, exitCode>>

NextZip == ZipCall \/ ZipTemp \/ ZipWrite \/ ZipClose \/ ZipRename \/ ZipFail

SpecZip == InitZip /\ [][NextZip]_vars

(***************************************************************************)
(* The walker run on its own: findFiles over one root of a small tree,     *)
(* under each layout.                                                      *)
(***************************************************************************)
\* entries a walked tree holds at most
MaxEntries == 3

Layouts == {"simple", "jaguar", "sd2snes", "megasd"}

\* a root with an ordinary name, and one whose own name begins with a dot
WalkRoots == {SrcRoot, <<<<".", "cache">>>>}

\* paths below a root at which a file may be
WalkEntries ==
  {<<<<"x", ".bin">>>>,
   <<<<".", "h", ".bin">>>>,
   <<<<".", "git">>, <<"y", ".bin">>>>,
   <<<<"sub">>, <<"z", ".bin">>>>,
   <<<<"sub">>, <<".", "k", ".bin">>>>,
   <<<<"firmware", ".upd">>>>,
   <<<<"sub">>, <<"firmware", ".upd">>>>,
   <<<<"sub">>, <<"s", ".e2p">>>>,
   <<<<"sd2snes">>, <<"menu", ".bin">>>>,
   <<<<"BIOS">>, <<"bios", ".cfg">>>>,
   <<<<"sub">>, <<"games", ".dbs">>>>}

WalkIdle == [op |-> "walk", root |-> <<>>, done |-> FALSE]

InitWalk ==
  /\ input = <<>>
  /\ output = <<>>
  /\ \E root \in WalkRoots : call = [WalkIdle EXCEPT !.root = root]
  /\ nmerge = 0
  /\ \E layout \in Layouts : cfg = [cmd |-> "none", layout |-> layout, destructive |-> FALSE]
  /\ \E E \in SUBSET WalkEntries :
       /\ Cardinality(E) <= MaxEntries
       /\ fs = [p \in {Join(call.root, e) : e \in E} |-> LooseFile(1)]
  /\ phase = "none"
  /\ dpc = "exited"
  /\ pending = {}
  /\ scanned = {}
  /\ jobs = {}
  /\ errs = {}
  /\ cancelled = FALSE
  /\ opErr = ""
  /\ exitCode = 0
  /\ readers = 0

\* findFiles runs to the end of the walk; every file it emits is received
WalkRun ==
  /\ call.op = "walk"
  /\ ~call.done
  /\ scanned' = findFiles(fs, cfg.layout, call.root)
  /\ call' = [call EXCEPT !.done = TRUE]
  /\ UNCHANGED <<input, output, nmerge, cfg, fs, phase, dpc, pending, jobs, errs,
                 cancelled, opErr, exitCode, readers>>

NextWalk == WalkRun

SpecWalk == InitWalk /\ [][NextWalk]_vars

(***************************************************************************)
(* exportPath called on its own: one ROM value, under each layout.         *)
(***************************************************************************)
\* game names: plain, multi-disc, with a sub-title tag, starting with a
\* digit, a lower-case letter or punctuation, without any letter or digit,
\* a BIOS image with and without a title and with the prefix twice, and one
\* whose (Disc N) follows the title without a space
LayoutGames ==
  {<<"Game X", " (USA)">>,
   <<"Game X", " (USA)", " (Disc 1)">>,
   <<"Game X", " (USA)", " (Disc 2)">>,
   <<"Game X", " (USA)", " (Disc 1)", " (Fire & Earth)">>,
   <<"Game X", "(Disc 1)">>,
   <<"Game X", "(Disc 2)">>,
   <<"3 Ninjas">>,
   <<"alien">>,
   <<" - ", "alien">>,
   <<"!!!">>,
   <<"[BIOS] ", "!!!">>,
   <<"[BIOS] ", "[BIOS] ", "!!!">>,
   <<"[BIOS] ", "Sega CD", " (USA)">>}

\* filenames: one of each extension class, and BIOS images with and without
\* the prefix and a console tag
LayoutFilenames ==
  {<<"rom", ".sms">>, <<"rom", ".md">>, <<"rom", ".32x">>,
   <<"disc", ".cue">>, <<"disc", ".bin">>, <<"rom", ".txt">>, <<"rom">>,
   <<"[BIOS] ", "Sega CD", " (USA)", ".bin">>,
   <<"[BIOS] ", "Sega Master System", ".md">>,
   <<"[BIOS] ", "Game X", ".md">>,
   <<"Sega CD", " (USA)", ".bin">>}

LayoutROMs ==
  {[Game |-> g, Filename |-> f, CRC |-> <<>>, SHA1 |-> <<>>] :
     g \in LayoutGames, f \in LayoutFilenames}

NoPath == [rel |-> <<>>, zipped |-> FALSE, name |-> <<>>, err |-> ""]

NoParent == [s |-> "", err |-> ""]

LayoutIdle ==
  [op |-> "export_path", rom |-> NoROM, done |-> FALSE, res |-> NoPath, parent |-> NoParent]

InitLayout ==
  /\ input = <<>>
  /\ output = <<>>
  /\ \E rom \in LayoutROMs, op \in {"export_path", "first_alphanumeric"} :
       call = [LayoutIdle EXCEPT !.rom = rom, !.op = op]
  /\ nmerge = 0
  /\ \E layout \in Layouts : cfg = [cmd |-> "none", layout |-> layout, destructive |-> FALSE]
  /\ fs = <<>>
  /\ phase = "none"
  /\ dpc = "exited"
  /\ pending = {}
  /\ scanned = {}
  /\ jobs = {}
  /\ errs = {}
  /\ cancelled = FALSE
  /\ opErr = ""
  /\ exitCode = 0
  /\ readers = 0

\* r.layout.exportPath(rom)
LayoutRun ==
  /\ call.op = "export_path"
  /\ ~call.done
  /\ call' = [call EXCEPT !.done = TRUE, !.res = exportPath(cfg.layout, call.rom)]
  /\ UNCHANGED <<input, output, nmerge, cfg, fs, phase, dpc, pending, scanned, jobs, errs,
                 cancelled, opErr, exitCode, readers>>

\* firstAlphanumeric(rom.Game)
BucketRun ==
  /\ call.op = "first_alphanumeric"
  /\ ~call.done
  /\ call' = [call EXCEPT !.done = TRUE, !.parent = firstAlphanumeric(call.rom.Game)]
  /\ UNCHANGED <<input, output, nmerge, cfg, fs, phase, dpc, pending, scanned, jobs, errs,
                 cancelled, opErr, exitCode, readers>>

NextLayout == LayoutRun \/ BucketRun

SpecLayout == InitLayout /\ [][NextLayout]_vars

(***************************************************************************)
(* Properties of the dat index.                                            *)
(***************************************************************************)
\* the (game, filename) identities of a document
Ids(doc) == {<<r.Game, r.Filename>> : r \in AllROMs(doc)}

\* the game children of a document, in document order
GamesOf(doc) == SelectSeq(doc, LAMBDA e : e.tag = "game")

HasBadElement(doc) == \E i \in DOMAIN doc : doc[i].tag \notin {"header", "game"}

\* C2, as claimed: in every state reachable by NewDatafile, merge, find_by_sha1,
\* find_by_crc and seen, every ROM identity of remaining is one of catalogue.
C2_RemainingWithinCatalogue == Ids(output) \subseteq Ids(input)

\* C2, amended: as long as no merge has been called, every ROM identity of
\* remaining is one of catalogue (merge appends to remaining only).
C2_RemainingWithinCatalogueUntilMerge ==
  nmerge = 0 => Ids(output) \subseteq Ids(input)

\* C2 witness: before any merge, a seen call has removed a ROM from remaining.
C2_Witness ==
  /\ nmerge = 0
  /\ call.op = "seen"
  /\ Ids(output) # Ids(input)

\* C10: a merge of a document without a bad element appends its game children to
\* remaining in document order, headers skipped, and games_remaining grows by
\* their number; a merge of a document with another top-level tag fails.
C10_MergeAppendsGames ==
  [][call'.op = "merge" =>
       /\ input' = input
       /\ IF HasBadElement(call'.doc)
          THEN call'.err = "unknown element"
          ELSE /\ call'.err = ""
               /\ output' = output \o GamesOf(call'.doc)
               /\ Games(output') = Games(output) + Len(GamesOf(call'.doc))]_vars

\* C10 witness: a successful merge of a document holding a header and two games.
C10_Witness ==
  /\ call.op = "merge"
  /\ call.err = ""
  /\ call.doc = DocTwo
  /\ Games(output) >= 3

(***************************************************************************)
(* Properties of the pipeline.                                             *)
(***************************************************************************)
UniqueIds(doc) ==
  \A i, k \in DOMAIN RomNodes(doc) :
    NodeROM(doc, RomNodes(doc)[i]).Game = NodeROM(doc, RomNodes(doc)[k]).Game
      /\ NodeROM(doc, RomNodes(doc)[i]).Filename = NodeROM(doc, RomNodes(doc)[k]).Filename
    => i = k

\* the contents of the scanned loose files, and the members of the scanned archives
ScannedLoose == {fs[p].data : p \in {q \in scanned \cap DOMAIN fs : fs[q].kind = "file"}}
ScannedMembers == UNION {fs[p].members : p \in {q \in scanned \cap DOMAIN fs : fs[q].kind = "zip"}}

\* a catalogue rom element has the (size, SHA-1) of a scanned loose file or the
\* (uncompressed size, CRC-32) of a scanned archive member
Observed(e) ==
  \/ \E c \in ScannedLoose : Size(c) = e.size /\ Hex(Digest(c)) = ToLower(e.sha1)
  \/ \E m \in ScannedMembers : Size(m.data) = e.size /\ Hex(Crc32(m.data)) = ToLower(e.crc)

\* the identities of the catalogue ROMs that no scanned content matches
Unobserved ==
  {<<input[n[1]].name, NodeElem(input, n).name>> :
     n \in {RomNodes(input)[i] : i \in {k \in DOMAIN RomNodes(input) :
                                         ~Observed(NodeElem(input, RomNodes(input)[k]))}}}

VerifyReturnedNil == phase = "Verify" /\ dpc \in {"returned", "exited"} /\ opErr = ""

\* C1: for a manifest with unique ROM identities, when Verify has returned
\* without error, remaining holds exactly the catalogue ROMs for which no scanned
\* loose file has the same (size, SHA-1) and no scanned archive member the same
\* (uncompressed size, CRC-32), whatever the interleaving of the workers.
C1_VerifyRemaining ==
  (VerifyReturnedNil /\ UniqueIds(input)) => Ids(output) = Unobserved

\* C1 witness: Verify returned without error after scanning a loose file and an
\* archive; some ROMs were matched and some remain.
C1_Witness ==
  /\ VerifyReturnedNil
  /\ UniqueIds(input)
  /\ ScannedLoose # {}
  /\ ScannedMembers # {}
  /\ Ids(output) # {}
  /\ Ids(output) # Ids(input)

\* C3: with the destructive flag off, no step of Verify, Export or Clean changes
\* the filesystem.
C3_DryRunLeavesFilesystem == [][~cfg.destructive => fs' = fs]_vars

\* C3 witness: a dry-run export has come to the end of Clean; Export marked a
\* ROM seen, and the target still holds a loose file that Clean does not keep.
C3_Witness ==
  /\ cfg.cmd = "export"
  /\ ~cfg.destructive
  /\ phase = "Clean"
  /\ dpc = "returned"
  /\ Ids(output) # Ids(input)
  /\ \E p \in scanned :
       /\ Exists(fs, p)
       /\ fs[p].kind = "file"
       /\ ~cleanMatched(cfg.layout, Target, p,
                        findROMBySHA1(input, sha1Sum(fs, p).size, sha1Sum(fs, p).sha))

\* the copy of catalogue rom element e of game g is at its export location under
\* the target: a member with the ROM's CRC and size, or a loose file with the
\* ROM's SHA-1 and size
ExportedAt(f, layout, g, e) ==
  LET ep   == exportPath(layout, ROMValue(g, e))
      full == Join(Target, ep.rel)
  IN  /\ Exists(f, full)
      /\ IF ep.zipped
         THEN /\ f[full].kind = "zip"
              /\ \E m \in f[full].members :
                   /\ m.name = ep.name
                   /\ Hex(Crc32(m.data)) = ToLower(e.crc)
                   /\ Size(m.data) = e.size
         ELSE /\ f[full].kind = "file"
              /\ Hex(Digest(f[full].data)) = ToLower(e.sha1)
              /\ Size(f[full].data) = e.size

\* the catalogue rom nodes whose identity is no longer in remaining
SeenNodes ==
  {n \in {RomNodes(input)[i] : i \in DOMAIN RomNodes(input)} :
     <<input[n[1]].name, NodeElem(input, n).name>> \notin Ids(output)}

ExportReturnedNil ==
  cfg.cmd = "export" /\ phase = "Export" /\ dpc = "returned" /\ opErr = ""

\* C4, as claimed: after a destructive Export has returned without error, every
\* ROM marked seen is present at its export location under the target.
C4_SeenRomsExported ==
  (ExportReturnedNil /\ cfg.destructive) =>
    \A n \in SeenNodes : ExportedAt(fs, cfg.layout, input[n[1]], NodeElem(input, n))

\* the worker holding file f
HasJob(J, f) == \E j \in J : j.file = f
JobAt(J, f) == CHOOSE j \in J : j.file = f

\* worker j takes the step
Steps(j) == j \in jobs /\ j \notin jobs'

\* the catalogue node of the ROM worker j is at
NodeOf(rom) ==
  CHOOSE n \in {RomNodes(input)[i] : i \in DOMAIN RomNodes(input)} : NodeROM(input, n) = rom

\* the target holds the content of the ROM worker j is at, at its export location
Held(f, j) ==
  ExportedAt(f, cfg.layout, input[NodeOf(Rom(j))[1]], NodeElem(input, NodeOf(Rom(j))))

\* C5: in destructive Export, a worker holding a loose source file matched to
\* ROM r goes on to write when the target lacks r's content at export_path(r),
\* and the step that completes the write leaves r's content there; when the
\* target already holds it the worker goes straight to marking r seen, and
\* neither the comparison nor the marking writes anything.
C5_LooseSourceWrittenWhenNeeded ==
  [][(cfg.destructive /\ phase = "Export") =>
       \A j \in jobs :
         (j.kind = "file" /\ Steps(j)) =>
           /\ (j.pc = "check" /\ HasJob(jobs', j.file)) =>
                /\ fs' = fs
                /\ IF Held(fs, j)
                   THEN JobAt(jobs', j.file).pc = "seen"
                   ELSE JobAt(jobs', j.file).pc \in {"ziptmp", "create"}
           /\ j.pc \in {"rename", "copy"} =>
                /\ HasJob(jobs', j.file)
                /\ JobAt(jobs', j.file).pc = "seen"
                /\ Held(fs', j)
           /\ j.pc = "seen" => fs' = fs]_vars

\* C5 witness: in a destructive Export over a target that already holds one
\* ROM, the worker of that ROM's source file is about to mark it seen with the
\* filesystem as it was at the start, while the worker of another source file
\* is about to rename its new archive into place.
C5_Witness ==
  /\ cfg.destructive
  /\ phase = "Export"
  /\ \E E \in SUBSET SrcFiles : fs = MkFs(E \cup TargetZipped)
  /\ \E j1, j2 \in jobs :
       /\ j1.kind = "file" /\ j1.pc = "seen" /\ Held(fs, j1)
       /\ j2.kind = "file" /\ j2.pc = "rename" /\ ~Held(fs, j2)

\* C6, as claimed: in destructive Export with a zipped layout, when the archive
\* worker marks the ROM of a source archive member seen, the target zip holds
\* the member with the ROM's CRC and size.
C6_ArchiveMemberAddedBeforeSeen ==
  [][(cfg.destructive /\ phase = "Export") =>
       \A j \in jobs :
         (j.kind = "zip" /\ j.pc = "seen" /\ Steps(j) /\ errs' = errs
            /\ exportPath(cfg.layout, Rom(j)).zipped)
           => Held(fs, j)]_vars

\* the members of the archive at p that are correctly placed copies of ROMs
Placed(f, p) ==
  {m \in f[p].members :
     \E n \in {RomNodes(input)[i] : i \in DOMAIN RomNodes(input)} :
       LET e  == NodeElem(input, n)
           ep == exportPath(cfg.layout, NodeROM(input, n))
       IN  /\ e.size = Size(m.data)
           /\ ToLower(e.crc) = Hex(Crc32(m.data))
           /\ Join(Target, ep.rel) = p
           /\ ep.name = m.name}

\* the files a Clean worker deals with in this step
Cleaned(kind) ==
  IF phase = "Clean" /\ cfg.destructive /\ errs' = errs
  THEN {p \in pending \ pending' : fs[p].kind = kind}
  ELSE {}

\* C7, as claimed: destructive Clean deletes a scanned archive none of whose
\* members is correctly placed, and leaves any other scanned archive with
\* exactly its correctly placed members.
C7_ArchivePrunedOrDeleted ==
  [][\A p \in Cleaned("zip") :
       IF Placed(fs, p) = {}
       THEN ~Exists(fs', p)
       ELSE Exists(fs', p) /\ fs'[p].members = Placed(fs, p)]_vars

\* some catalogue ROM with the (size, SHA-1) of the loose file at p belongs at p
KeptByCatalogue(f, p) ==
  \E n \in {RomNodes(input)[i] : i \in DOMAIN RomNodes(input)} :
    LET e == NodeElem(input, n)
    IN  /\ e.size = Size(f[p].data)
        /\ ToLower(e.sha1) = Hex(Digest(f[p].data))
        /\ Join(Target, exportPath(cfg.layout, NodeROM(input, n)).rel) = p

\* C8: destructive Clean keeps a scanned loose file, untouched, if and only if
\* some catalogue ROM with the file's (size, SHA-1) has its export path under
\* the target equal to the file's path; every other scanned loose file is deleted.
C8_LooseFileKeptIffPlaced ==
  [][\A p \in Cleaned("file") :
       IF KeptByCatalogue(fs, p)
       THEN Exists(fs', p) /\ fs'[p] = fs[p]
       ELSE ~Exists(fs', p)]_vars

\* C8 witness: a destructive Clean has dealt with every scanned file; a
\* correctly placed loose file is still there and another loose file is gone.
C8_Witness ==
  /\ cfg.destructive
  /\ phase = "Clean"
  /\ pending = {}
  /\ \E p \in scanned :
       /\ Exists(fs, p) /\ fs[p].kind = "file" /\ KeptByCatalogue(fs, p)
  /\ Target \o <<<<"junk", ".bin">>>> \in scanned
  /\ ~Exists(fs, Target \o <<<<"junk", ".bin">>>>)

\* C9, as claimed: the command exits with 1 when the operation failed, with 2
\* when it did not and games remain, and with 0 otherwise.
C9_ExitCode ==
  dpc = "exited" =>
    exitCode = IF opErr # "" THEN 1 ELSE IF Games(output) > 0 THEN 2 ELSE 0

\* C11: when remaining holds no duplicate (game, filename) identity, seen(r)
\* returns no error, and a second seen(r) returns no error and leaves remaining
\* as the first call left it.
C11_SeenIdempotent ==
  [][(call'.op = "seen" /\ UniqueIds(output)) =>
       /\ call'.err = ""
       /\ seenROM([input |-> input', output |-> output'], call'.rom).err = ""
       /\ seenROM([input |-> input', output |-> output'], call'.rom).output = output']_vars

\* C11 witness: a seen call without error on a remaining without duplicates,
\* for a catalogue ROM that is no longer in remaining.
C11_Witness ==
  /\ call.op = "seen"
  /\ call.err = ""
  /\ UniqueIds(output)
  /\ <<call.rom.Game, call.rom.Filename>> \in Ids(input) \ Ids(output)

\* the identities of the ROM values in a sequence
IdsOf(roms) == {<<roms[i].Game, roms[i].Filename>> : i \in DOMAIN roms}

\* the identities of the catalogue ROMs with the (size, SHA-1) of content c, and
\* with its (size, CRC-32)
CatalogueBySHA1(c) ==
  {<<input[n[1]].name, NodeElem(input, n).name>> :
     n \in {x \in {RomNodes(input)[i] : i \in DOMAIN RomNodes(input)} :
              /\ NodeElem(input, x).size = Size(c)
              /\ ToLower(NodeElem(input, x).sha1) = Hex(Digest(c))}}
CatalogueByCRC(c) ==
  {<<input[n[1]].name, NodeElem(input, n).name>> :
     n \in {x \in {RomNodes(input)[i] : i \in DOMAIN RomNodes(input)} :
              /\ NodeElem(input, x).size = Size(c)
              /\ ToLower(NodeElem(input, x).crc) = Hex(Crc32(c))}}

\* C12: the ROMs a worker holds for a loose file are every catalogue ROM with
\* the file's (size, SHA-1), those it holds for an archive member every
\* catalogue ROM with the member's (size, CRC-32), across all games; when the
\* worker has marked the last of them seen without error, none of them is in
\* remaining.
C12_AllMatchesFoundAndSeen ==
  [][\A j \in jobs :
       /\ IdsOf(j.roms) = IF j.kind = "file" THEN CatalogueBySHA1(fs[j.file].data)
                          ELSE CatalogueByCRC(j.members[j.m].data)
       /\ (Steps(j) /\ j.pc = "seen" /\ j.i = Len(j.roms) /\ errs' = errs)
            => IdsOf(j.roms) \cap Ids(output') = {}]_vars

\* C12 witness: Verify returned without error on the manifest that lists one
\* binary in two games, having scanned one loose file of that content and no
\* archive; both ROMs are gone from remaining.
C12_Witness ==
  /\ VerifyReturnedNil
  /\ input = DocShared
  /\ ScannedLoose = {1}
  /\ ScannedMembers = {}
  /\ Cardinality(CatalogueBySHA1(1)) = 2
  /\ Ids(output) = {}

\* a game element that holds no rom
EmptyGame(e) == e.tag = "game" /\ Len(e.roms) = 0

\* the document without the rom elements of identity rom, and without the
\* games that held nothing else
WithoutROM(doc, rom) ==
  LET strip(e) == IF e.tag = "game" /\ e.name = rom.Game
                  THEN [e EXCEPT !.roms = SelectSeq(e.roms, LAMBDA r : r.name # rom.Filename)]
                  ELSE e
      gone(e)  == e.tag = "game" /\ e.name = rom.Game /\ EmptyGame(strip(e))
  IN  SelectSeq([i \in DOMAIN doc |-> IF gone(doc[i]) THEN Other("gone") ELSE strip(doc[i])],
                LAMBDA e : e.tag # "gone")

\* the games of remaining that still hold a rom
GamesWithROMs(doc) == {i \in DOMAIN doc : doc[i].tag = "game" /\ Len(doc[i].roms) > 0}

\* C13: a successful seen(r) removes r from remaining, and removes r's game
\* exactly when r was its last ROM, every other game and ROM staying in place;
\* no game without a ROM is ever in remaining, and games_remaining() is the
\* number of games that still hold a ROM.
C13_GameRemovedWithLastROM ==
  /\ [](\A i \in DOMAIN output : ~EmptyGame(output[i]))
  /\ [](Games(output) = Cardinality(GamesWithROMs(output)))
  /\ [][(call'.op = "seen" /\ call'.err = "") => output' = WithoutROM(output, call'.rom)]_vars

\* C13 witness: a successful seen has removed the game of its ROM from
\* remaining, and another game is still there.
C13_Witness ==
  /\ call.op = "seen"
  /\ call.err = ""
  /\ nmerge = 0
  /\ \E i \in DOMAIN input : input[i].tag = "game" /\ input[i].name = call.rom.Game
  /\ ~\E i \in DOMAIN output : output[i].tag = "game" /\ output[i].name = call.rom.Game
  /\ Games(output) > 0

\* C14: when Verify, Export or Clean has returned, its result is nil if and only
\* if no task has posted an error, and a non-nil result is one of the errors
\* posted.
C14_ErrorSurfaced ==
  dpc = "returned" =>
    /\ opErr = "" <=> errs = {}
    /\ opErr # "" => \E e \in errs : e.err = opErr

\* C14 witness: the operation returned an error after two tasks had posted
\* different errors.
C14_Witness ==
  /\ dpc = "returned"
  /\ opErr # ""
  /\ \E e1, e2 \in errs : e1.err # e2.err

\* the rom nodes of a document with the identity of rom
NodesOfId(doc, rom) ==
  {n \in {RomNodes(doc)[i] : i \in DOMAIN RomNodes(doc)} :
     doc[n[1]].name = rom.Game /\ NodeElem(doc, n).name = rom.Filename}

\* C15: when remaining holds more than one rom element of the same (game name,
\* filename), in one game element or in several of the same name, seen for that
\* identity fails with the ambiguity error and leaves remaining unchanged.
C15_AmbiguousRomRejected ==
  [][(call'.op = "seen" /\ Cardinality(NodesOfId(output, call'.rom)) > 1) =>
       /\ call'.err = "more than one matched ROM"
       /\ output' = output]_vars

\* C15 witness: seen has failed for an identity that two game elements of the
\* same name hold.
C15_Witness ==
  /\ call.op = "seen"
  /\ call.err # ""
  /\ \E n1, n2 \in NodesOfId(output, call.rom) : n1[1] # n2[1]

\* the identities of the catalogue ROMs of size s whose stored hash, read
\* without regard to case, is h
StoredSHA1(s, h) ==
  {<<input[n[1]].name, NodeElem(input, n).name>> :
     n \in {x \in {RomNodes(input)[i] : i \in DOMAIN RomNodes(input)} :
              NodeElem(input, x).size = s /\ ToLower(NodeElem(input, x).sha1) = ToLower(h)}}
StoredCRC(s, h) ==
  {<<input[n[1]].name, NodeElem(input, n).name>> :
     n \in {x \in {RomNodes(input)[i] : i \in DOMAIN RomNodes(input)} :
              NodeElem(input, x).size = s /\ ToLower(NodeElem(input, x).crc) = ToLower(h)}}

\* C16: find_by_sha1 and find_by_crc return the same ROMs for a hash, for its
\* upper-case form and for its lower-case form, and these are the catalogue
\* ROMs of that size whose stored hash equals the query up to case.
C16_FindIgnoresCase ==
  [][/\ call'.op = "find_by_sha1" =>
          /\ call'.found = findROMBySHA1(input, call'.size, ToUpper(call'.hash))
          /\ call'.found = findROMBySHA1(input, call'.size, ToLower(call'.hash))
          /\ IdsOf(call'.found) = StoredSHA1(call'.size, call'.hash)
     /\ call'.op = "find_by_crc" =>
          /\ call'.found = findROMByCRC(input, call'.size, ToUpper(call'.hash))
          /\ call'.found = findROMByCRC(input, call'.size, ToLower(call'.hash))
          /\ IdsOf(call'.found) = StoredCRC(call'.size, call'.hash)]_vars

\* C16 witness: a lower-case CRC query has found two ROMs, one stored in lower
\* case and one in upper case.
C16_Witness ==
  /\ call.op = "find_by_crc"
  /\ call.hash = ToLower(call.hash)
  /\ call.hash # ToUpper(call.hash)
  /\ Len(call.found) = 2
  /\ \E n \in {RomNodes(input)[i] : i \in DOMAIN RomNodes(input)} :
       /\ NodeElem(input, n).crc = ToUpper(call.hash)
       /\ <<input[n[1]].name, NodeElem(input, n).name>> \in IdsOf(call.found)

\* what createOrUpdateZip(path, name, reader) is to leave at path, given the
\* filesystem it was called on
UpdatedMembers(before, path, name, data) ==
  IF Exists(before, path)
  THEN {m \in before[path].members : m.name # name} \cup {Member(name, data)}
  ELSE {Member(name, data)}

\* C17: when createOrUpdateZip returns without error, the archive at path holds
\* exactly the members it held when the function was called other than name,
\* unchanged, and name with the reader's content, or name alone if there was no
\* archive; the temp file is gone and no other file has changed.
C17_CreateOrUpdateContents ==
  [][(call.op = "create_or_update" /\ call.pc = "closed" /\ call'.pc = "done") =>
       /\ fs'[call.path] = ZipFile(UpdatedMembers(call.before, call.path, call.name, call.data))
       /\ DOMAIN fs' = DOMAIN call.before \cup {call.path}
       /\ \A q \in DOMAIN call.before : q # call.path => fs'[q] = call.before[q]]_vars

\* C17 witness: createOrUpdateZip has replaced a member of an archive of two
\* members with other content; the other member is still there.
C17_Witness ==
  /\ call.op = "create_or_update"
  /\ call.pc = "done"
  /\ Exists(call.before, call.path)
  /\ Cardinality(call.before[call.path].members) = 2
  /\ Member(call.name, call.data) \notin call.before[call.path].members
  /\ \E m \in call.before[call.path].members : m.name = call.name
  /\ Cardinality(fs[call.path].members) = 2

\* C18, as claimed: the target path never holds a partially written archive,
\* and when an archive-writing function has failed the target is as it was
\* when the function was called and the temp file it created is gone.
C18_FailureLeavesNoTrace ==
  /\ Exists(fs, ZipPath) => fs[ZipPath].kind # "partial"
  /\ call.pc = "failed" =>
       /\ ~Exists(fs, call.tmp)
       /\ Exists(fs, call.path) = Exists(call.before, call.path)
       /\ Exists(fs, call.path) => fs[call.path] = call.before[call.path]

\* the files under root with no dot-named component below the root, and with no
\* component below the root, file or directory, at a path the layout ignores
Visible(f, layout, root) ==
  {p \in DOMAIN f :
     /\ IsPrefix(root, p) /\ Len(p) > Len(root)
     /\ \A k \in (Len(root) + 1)..Len(p) :
          /\ p[k][1] \notin DotTokens
          /\ ~ignorePath(layout, SubSeq(p, Len(root) + 1, k))}

\* dot-named files and directories that may be added under a root
HiddenExtras ==
  {<<<<".", "added">>>>, <<<<"sub">>, <<".", "added">>>>, <<<<".", "dir">>, <<"added", ".bin">>>>}

\* adding a dot-named entry under the root does not change what the walk emits
HiddenInvariant ==
  \A h \in HiddenExtras :
    findFiles(Put(fs, Join(call.root, h), LooseFile(2)), cfg.layout, call.root)
      = findFiles(fs, cfg.layout, call.root)

\* C19, as claimed: the walker emits exactly the files under the root that have
\* no dot-named component below the root and are neither ignored by the layout
\* nor inside an ignored directory; adding a dot-named entry changes nothing.
C19_WalkerEmitsVisibleFiles ==
  call.done => (scanned = Visible(fs, cfg.layout, call.root) /\ HiddenInvariant)

(***************************************************************************)
(* Properties of the MegaSD layout.                                        *)
(***************************************************************************)
MegaSDCalled == call.op = "export_path" /\ call.done /\ cfg.layout = "megasd"

\* a filename with the BIOS prefix that contains a recognised console tag
BiosTagged(filename) ==
  /\ Len(filename) > 0
  /\ filename[1] = "[BIOS] "
  /\ \E i \in DOMAIN filename : filename[i] \in BiosTags

\* the game name less its BIOS prefix
Titled(game) == IF Len(game) > 0 /\ game[1] = "[BIOS] " THEN Tail(game) ELSE game

\* the buckets of a game name: the upper-cased letter, or "#" for a digit,
\* of the first part of the title that has a letter or digit
Buckets(game) ==
  {TokenAlnum(Titled(game)[i]) : i \in
     {k \in DOMAIN Titled(game) :
        /\ TokenAlnum(Titled(game)[k]) # ""
        /\ \A j \in 1..(k - 1) : TokenAlnum(Titled(game)[j]) = ""}}

\* a game name with every "(Disc N)" that follows white space taken out
LessDiscs(game) == SelectSeq(game, LAMBDA t : t \notin {" (Disc 1)", " (Disc 2)"})

\* the disc-stripped game name: less every "(Disc N)" and per-disc sub-tag
\* that follows white space
DiscStripped(game) ==
  SelectSeq(LessDiscs(game),
            LAMBDA t : t \notin {" (Fire & Earth)", " (Wind & Fang Tu)", " (Fingers)",
                                 " (Juice)", " (Mad Dog)", " (Smash)"})

\* the directory a relative path lies in
DirOf(rel) == SubSeq(rel, 1, Len(rel) - 1)

\* where the routing rules send a ROM, given its bucket and its disc-stripped
\* game name
Routed(rom, b, dir) ==
  IF BiosTagged(rom.Filename) THEN <<<<"BIOS">>, rom.Filename>>
  ELSE CASE Ext(<<rom.Filename>>) = ".sms" -> <<<<"Master System & Mark III">>, <<b>>, rom.Filename>>
         [] Ext(<<rom.Filename>>) = ".md" -> <<<<"Mega Drive & Genesis">>, <<b>>, rom.Filename>>
         [] Ext(<<rom.Filename>>) = ".32x" -> <<<<"32X">>, <<b>>, rom.Filename>>
         [] Ext(<<rom.Filename>>) \in {".cue", ".bin"} ->
              <<<<"Mega-CD & Sega CD">>, <<b>>, dir, rom.Filename>>
         [] OTHER -> <<<<b>>, rom.Filename>>

BucketCalled == call.op = "first_alphanumeric" /\ call.done

UpperLetters ==
  {"A", "B", "C", "D", "E", "F", "G", "H", "I", "J", "K", "L", "M", "N", "O", "P", "Q", "R",
   "S", "T", "U", "V", "W", "X", "Y", "Z"}

\* C21: the bucketing helper strips one leading "[BIOS] " and returns the
\* upper-cased letter, or "#" for a digit, of the first ASCII alphanumeric
\* character, and the no-alphanumeric error if there is none; MegaSD
\* export_path fails with that error for such a game.
C21_FirstAlphanumeric ==
  /\ BucketCalled =>
       /\ Buckets(call.rom.Game) # {} =>
            /\ call.parent.err = ""
            /\ Buckets(call.rom.Game) = {call.parent.s}
            /\ call.parent.s \in UpperLetters \cup {"#"}
       /\ Buckets(call.rom.Game) = {} =>
            /\ call.parent.err = "no alphanumberic character"
            /\ call.parent.s = ""
  /\ MegaSDCalled /\ Buckets(call.rom.Game) = {} =>
       /\ call.res.err = "no alphanumberic character"
       /\ call.res.rel = <<>>

\* the helper met the prefix a second time and took its letter
C21_Witness ==
  /\ BucketCalled
  /\ call.rom.Game = <<"[BIOS] ", "[BIOS] ", "!!!">>
  /\ call.parent = [s |-> "B", err |-> ""]

(***************************************************************************)
(* Properties of concurrent workers.                                       *)
(***************************************************************************)
\* the Datafile a seen call leaves
After(r) == [input |-> r.input, output |-> r.output]

\* the workers about to call seenROM
AtSeen == {j \in jobs : j.pc = "seen"}

\* C22: when several workers call seen concurrently, each call acts on
\* remaining in one step, both orders of two pending calls leave the same
\* remaining and return the same errors, and of two calls for one ROM the
\* later changes nothing.
C22_ConcurrentSeenCommutes ==
  /\ [](\A j1, j2 \in AtSeen :
          j1 # j2 =>
            LET a  == Rom(j1)
                b  == Rom(j2)
                ra == seenROM(D, a)
                rb == seenROM(D, b)
                ab == seenROM(After(ra), b)
                ba == seenROM(After(rb), a)
            IN  /\ ab.output = ba.output
                /\ ab.err = rb.err
                /\ ba.err = ra.err
                /\ a = b => ab.output = ra.output)
  /\ [][output' # output =>
          \E j \in AtSeen : output' = seenROM(D, Rom(j)).output /\ Steps(j)]_vars

\* two workers, holding different files, are about to mark the same ROM seen
C22_Witness ==
  \E j1, j2 \in AtSeen :
    /\ j1.file # j2.file
    /\ Rom(j1) = Rom(j2)
    /\ seenROM(D, Rom(j1)).output # output

\* C23: once Verify, Export or Clean has returned, with or without an error,
\* no task it started marks a ROM seen or changes the filesystem.
C23_NoWorkAfterReturn ==
  [][dpc = "returned" => output' = output /\ fs' = fs]_vars

\* the stream a file belongs on: archive for what is sniffed as zip or xlsx,
\* loose for the rest
KindOf(file) == IF file.magic \in {"zip", "xlsx"} THEN "zip" ELSE "file"

\* C24: if no task reports an error the operation returns in the end; a walked
\* file is held by one worker at a time, of the kind matching its sniffed
\* type, is never emitted again once received, and none is waiting or in work
\* when the operation returns without error.
C24_EveryFileProcessedOnce ==
  /\ [](/\ pending \cap {j.file : j \in jobs} = {}
        /\ \A j1, j2 \in jobs : j1.file = j2.file => j1 = j2
        /\ \A j \in jobs : j.file \in scanned /\ j.kind = KindOf(fs[j.file]))
  /\ [][(phase' = phase /\ errs' = {}) =>
          /\ pending' \subseteq pending
          /\ Cardinality(pending \ pending') <= 1
          /\ \A j \in jobs' \ jobs : j.file \in pending \/ HasJob(jobs, j.file)]_vars
  /\ []((dpc = "returned" /\ opErr = "") => (pending = {} /\ jobs = {}))
  /\ (dpc = "running") ~> (dpc = "returned" \/ errs # {})

\* Verify returned without error after a loose file and an archive were walked
C24_Witness ==
  /\ dpc = "returned"
  /\ opErr = ""
  /\ errs = {}
  /\ {SrcRoot \o <<<<"x", ".bin">>>>, Target \o <<<<"G1", ".zip">>>>} \subseteq scanned
  /\ pending = {}

\* a walker, the fan-in, the classifier or a worker has not finished
TasksLeft == pending # {} \/ jobs # {}

Writing(j) == j.pc \in {"rename", "copy"}

\* the (full, member) a worker writes to
Destination(j) == <<FullPath(Rom(j)), exportPath(cfg.layout, Rom(j)).name>>

\* C26: during one Export run no two workers are at once writing to the same
\* destination (full, member).
C26_OneWriterPerDestination ==
  phase = "Export" =>
    \A j1, j2 \in jobs :
      (Writing(j1) /\ Writing(j2) /\ Destination(j1) = Destination(j2)) => j1 = j2

(***************************************************************************)
(* Properties of the Datafile's mutex.                                     *)
(***************************************************************************)
\* C27: no two Datafile operations run at once on one Datafile, and each runs
\* its whole body while it holds the mutex.
C27_OperationsSerialised ==
  /\ Cardinality(InBody(call)) <= 1
  /\ \A t \in InBody(call) : call.mutex = t

\* C28: once every task of an operation has finished, normally or because of
\* an error, no zip reader is open.
C28_ReadersClosed ==
  (dpc = "returned" /\ ~TasksLeft) => readers = 0

\* C29: the classifier sends what is sniffed as zip or xlsx to the archive
\* workers, what is sniffed as 7z to no worker, so that none hashes or deletes
\* it, and everything else to the loose workers.
C29_ClassifierRoutes ==
  /\ [](\A j \in jobs :
          /\ fs[j.file].magic # "7z"
          /\ j.kind = IF fs[j.file].magic \in {"zip", "xlsx"} THEN "zip" ELSE "file")
  /\ [][\A p \in DOMAIN fs : fs[p].magic = "7z" => (p \in DOMAIN fs' /\ fs'[p] = fs[p])]_vars

\* C30: in Export, a worker marks a ROM seen only in dry-run or with the ROM's
\* content held at its export location, written by the worker or found there
\* already; a worker that ends on a failed comparison, copy or archive update
\* posts the error and marks nothing.
C30_SeenOnlyAfterPlacement ==
  [][phase = "Export" =>
       \A j \in jobs :
         Steps(j) =>
           /\ (j.pc = "seen" /\ errs' = errs) => (~cfg.destructive \/ Held(fs, j))
           /\ (j.pc # "seen" /\ ~HasJob(jobs', j.file)) =>
                (errs' # errs /\ output' = output)]_vars

\* the contents of the loose files, and the members of the archives, under the
\* source roots
SourceLoose == {fs[p].data : p \in {q \in DOMAIN fs : IsPrefix(SrcRoot, q) /\ fs[q].kind = "file"}}
SourceMembers == UNION {fs[p].members : p \in {q \in DOMAIN fs : IsPrefix(SrcRoot, q) /\ fs[q].kind = "zip"}}

\* a catalogue rom element has the (size, SHA-1) of a loose source file or the
\* (uncompressed size, CRC-32) of a member of a source archive
InSources(e) ==
  \/ \E c \in SourceLoose : Size(c) = e.size /\ Hex(Digest(c)) = ToLower(e.sha1)
  \/ \E m \in SourceMembers : Size(m.data) = e.size /\ Hex(Crc32(m.data)) = ToLower(e.crc)

\* the catalogue rom nodes whose only copy is at its export location under the target
OnlyAtTarget ==
  {n \in {RomNodes(input)[i] : i \in DOMAIN RomNodes(input)} :
     /\ ExportedAt(fs, cfg.layout, input[n[1]], NodeElem(input, n))
     /\ ~InSources(NodeElem(input, n))}

\* C31: with the target outside the source roots, Export walks, and its
\* workers hold, only files under the source roots, and it marks a ROM seen only
\* on behalf of such a file, so that a ROM whose only copy is at its export
\* location under the target is still in remaining when Export has returned;
\* Clean walks only files under the target.
C31_ExportWalksSourcesOnly ==
  /\ [](phase = "Export" =>
          /\ \A p \in scanned : IsPrefix(SrcRoot, p)
          /\ \A j \in jobs : IsPrefix(SrcRoot, j.file))
  /\ [][(phase = "Export" /\ output' # output) =>
          \E j \in jobs : IsPrefix(SrcRoot, j.file) /\ Steps(j)
                            /\ output' = seenROM(D, Rom(j)).output]_vars
  /\ [](ExportReturnedNil => OnlyAtTarget \cap SeenNodes = {})
  /\ [](phase = "Clean" => \A p \in scanned : IsPrefix(Target, p))

\* C31 witness: Export has returned without error over a target that already
\* held a ROM no source holds; that ROM is still in remaining, while a ROM
\* found in a source file was marked seen.
C31_Witness ==
  /\ ExportReturnedNil
  /\ OnlyAtTarget # {}
  /\ SeenNodes # {}

\* the names of the games of a document
GameNames(doc) == {doc[i].name : i \in {k \in DOMAIN doc : doc[k].tag = "game"}}

\* the number of rom nodes of a document with the identity id
CountOf(doc, id) ==
  Cardinality({i \in DOMAIN RomNodes(doc) :
                 <<doc[RomNodes(doc)[i][1]].name, NodeElem(doc, RomNodes(doc)[i]).name>> = id})

\* C32: no step of Verify, Export or Clean adds to remaining: every ROM and
\* every game of remaining after the step was there before it, with no more rom
\* nodes than before.
C32_RemainingOnlyShrinks ==
  [][/\ Ids(output') \subseteq Ids(output)
     /\ GameNames(output') \subseteq GameNames(output)
     /\ \A id \in Ids(output) : CountOf(output', id) <= CountOf(output, id)]_vars

\* C32 witness: Clean has returned after an Export that removed a ROM after
\* another, and with it a game.
C32_Witness ==
  /\ phase = "Clean"
  /\ dpc = "returned"
  /\ Cardinality(Ids(input) \ Ids(output)) >= 2
  /\ GameNames(output) # GameNames(input)

\* C33: no call of find_by_sha1, find_by_crc, seen, merge or marshal, and no
\* step of Verify, Export or Clean, changes the catalogue.
C33_CatalogueReadOnly == [][input' = input]_vars

\* C33 witness: a merge and a seen that both changed remaining were followed
\* by a marshal.
C33_Witness ==
  /\ call.op = "marshal"
  /\ nmerge > 0
  /\ Ids(input) \ Ids(output) # {}
  /\ Ids(output) \ Ids(input) # {}

\* C34: whatever the layout and the destructive flag, no step of Verify
\* changes the filesystem: a step changes at most remaining, by marking seen
\* the ROM a worker matched to a loose file or to an archive member.
C34_VerifyLeavesFiles ==
  [][phase = "Verify" =>
       /\ fs' = fs
       /\ output' # output =>
            \E j \in jobs : Steps(j) /\ output' = seenROM(D, Rom(j)).output]_vars

\* the catalogue rom nodes whose content, by size and SHA-1, is that of the
\* loose file at p, and whose export location is p
CatalogueKeeps(p) ==
  {n \in {RomNodes(input)[i] : i \in DOMAIN RomNodes(input)} :
     /\ NodeElem(input, n).size = Size(fs[p].data)
     /\ ToLower(NodeElem(input, n).sha1) = Hex(Digest(fs[p].data))
     /\ Join(Target, exportPath(cfg.layout, NodeROM(input, n)).rel) = p}

\* Clean keeps what is at p: a loose file some catalogue ROM places there, an
\* archive with a member some catalogue ROM places in it
CleanKeeps(p) ==
  IF fs[p].kind = "zip" THEN Placed(fs, p) # {} ELSE CatalogueKeeps(p) # {}

\* C35: no step of Clean changes remaining, and a destructive Clean worker
\* that deals with a file keeps it exactly when the catalogue and the layout
\* place its content, or one of its members, at its path, whether the ROM is
\* still in remaining or not; without the flag everything is kept.
C35_CleanDecidesFromCatalogue ==
  /\ [][phase = "Clean" => output' = output]_vars
  /\ [][(phase = "Clean" /\ errs' = errs) =>
          \A p \in pending \ pending' :
            Exists(fs', p) <=> (~cfg.destructive \/ CleanKeeps(p))]_vars

\* C35 witness: a destructive Clean has dealt with two loose files it kept,
\* one of a ROM still in remaining and one of a ROM Export marked seen, and has
\* deleted a third.
C35_Witness ==
  /\ phase = "Clean"
  /\ cfg.destructive
  /\ \E p, q \in (scanned \ pending) \cap DOMAIN fs :
       /\ fs[p].kind = "file" /\ fs[q].kind = "file"
       /\ \E n \in CatalogueKeeps(p) : n \notin SeenNodes
       /\ \E n \in CatalogueKeeps(q) : n \in SeenNodes
  /\ scanned \ DOMAIN fs # {}

\* C36: when Export has returned without error, remaining holds exactly the
\* catalogue ROMs that no scanned source content matches, a set that the
\* manifest and the sources determine: it is the same with the destructive
\* flag on and off, and whatever the target held.
C36_RemainingSameInDryRun ==
  ExportReturnedNil => Ids(output) = Unobserved

\* C36 witness: a dry-run Export has returned without error; it marked seen a
\* ROM that is not at its export location under the target, and left another
\* in remaining.
C36_Witness ==
  /\ ExportReturnedNil
  /\ ~cfg.destructive
  /\ \E n \in SeenNodes : ~ExportedAt(fs, cfg.layout, input[n[1]], NodeElem(input, n))
  /\ Ids(output) # {}

\* the index of the first top-level element of doc that is neither a header
\* nor a game
FirstBad(doc) ==
  CHOOSE i \in DOMAIN doc :
    /\ doc[i].tag \notin {"header", "game"}
    /\ \A k \in 1..(i - 1) : doc[k].tag \in {"header", "game"}

\* C37: a merge of a document with a top-level element that is neither header
\* nor game fails with the unknown-element error and leaves remaining extended
\* by the games that precede that element in the document, in order, and by
\* nothing that follows it.
C37_MergeStopsAtBadElement ==
  [][(call'.op = "merge" /\ HasBadElement(call'.doc)) =>
       /\ call'.err = "unknown element"
       /\ output' = output \o GamesOf(SubSeq(call'.doc, 1, FirstBad(call'.doc) - 1))]_vars

\* C37 witness: a merge of a document with a comment between two games has
\* failed; the game before the comment is in remaining and the one after it
\* is not.
C37_Witness ==
  /\ call.op = "merge"
  /\ call.doc = DocBad
  /\ call.err # ""
  /\ G3 \in GameNames(output)
  /\ G4 \notin GameNames(output)

\* every root given to Verify has a name that begins with a dot
HiddenRootRun ==
  \A i \in DOMAIN cfg.roots : Hidden(cfg.roots[i][Len(cfg.roots[i])])

\* the files under the roots of a ROM of the catalogue, at a path with no
\* dot-named component below the root
RomsUnderRoots ==
  {p \in DOMAIN fs :
     /\ \E i \in DOMAIN cfg.roots :
          /\ IsPrefix(cfg.roots[i], p)
          /\ \A k \in (Len(cfg.roots[i]) + 1)..Len(p) : ~Hidden(p[k])
     /\ fs[p].kind = "file"
     /\ findROMBySHA1(input, Size(fs[p].data), Hex(Digest(fs[p].data))) # <<>>}

\* C38: a Verify whose roots all have a name beginning with a dot, "."
\* included, walks nothing: no file is emitted or handed to a worker, no error
\* is posted or returned, no file changes and remaining stays the catalogue.
C38_HiddenRootSkipped ==
  /\ [](HiddenRootRun =>
          /\ scanned = {} /\ pending = {} /\ jobs = {}
          /\ errs = {} /\ opErr = ""
          /\ output = input)
  /\ [][HiddenRootRun => fs' = fs]_vars

\* C38 witness: Verify of "." has returned; the directory holds a file of a
\* catalogue ROM, at a path with no dot-named component below the root, and
\* the ROM is still in remaining.
C38_Witness ==
  /\ cfg.roots = <<CurDir>>
  /\ dpc = "returned"
  /\ RomsUnderRoots # {}
  /\ output = input

====
